---- MODULE Spec2Model ----
(***************************************************************************)
(* Dynamic context pruning: the request-rewrite pipeline (handleFormat),   *)
(* the numeric-ID registry, the strategy runner and the idle janitor.      *)
(*                                                                         *)
(* Text is modelled as a sequence of atoms: `a + "\n\n" + b` is            *)
(* concatenation of sequences and `a.includes(b)` is atom membership.      *)
(***************************************************************************)
EXTENDS Integers, Sequences, FiniteSets, TLC

\* ------------------------------------------------------------------------
\* Bounds
\* ------------------------------------------------------------------------
\* tool calls the host issues in total (over all sessions)
MaxCalls == 4
\* numeric IDs in one prune request
MaxPrune == 2
\* registry API calls per session in SpecReg
MaxOps == 3
\* candidate list length in SpecDedup
MaxCand == 3

\* entries of a data array handed to replaceToolOutput (OpenAI / Anthropic)
MaxData == 2

\* parts of a Gemini data array
MaxParts == 3

\* replacements made on one data array
MaxRepl == 2

\* configured nudge frequencies and tracker counts tried
MaxFreq == 10
MaxCount == 11
\* reported garbage up to which a failing notification is still followed
MaxGC == 2
\* longest text handed to the token estimator, in characters
MaxText == 5
\* entries of a data array handed to injectSynth
MaxTurns == 3

\* ------------------------------------------------------------------------
\* The environment: sessions, tool calls, configuration
\* ------------------------------------------------------------------------
Sessions == {"s1", "s2", "sub"}

\* the sessions with an agent at work; the others only exist in the host
Agents == {"s1"}

\* the sessions the host sends idle events for
EventSessions == {"s1", "sub"}

NoSession == "none"

\* provider-assigned call IDs, by global call number; the first one is
\* mixed-case, the others are already lower-case
IdTable == <<"A1", "c2", "c3", "c4", "c5", "c6">>

CallId(k) == IdTable[k]

toLowerCase(id) ==
    CASE id = "A1"   -> "a1"
      [] id = "Task" -> "task"
      [] id = "Grep" -> "grep"
      [] id = "ID1"  -> "id1"
      [] id = "ID3"  -> "id3"
      [] OTHER       -> id

\* calls 1 and 3 are the same read with the parameter keys in another order,
\* calls 2 and 4 are the same call of a protected tool, the later calls
\* differ from the protected tool's name in letter case only
CallTool(k) ==
    CASE k = 1 -> "read"
      [] k = 2 -> "task"
      [] k = 3 -> "read"
      [] k = 4 -> "task"
      [] OTHER -> "Task"

CallParams(k) ==
    CASE k = 1 -> << <<"path", "x">>, <<"limit", "1">> >>
      [] k = 2 -> << <<"path", "t">> >>
      [] k = 3 -> << <<"limit", "1">>, <<"path", "x">> >>
      [] k = 4 -> << <<"path", "t">> >>
      [] OTHER -> << <<"path", "y">> >>

CallNumbers == 1..MaxCalls

\* the call behind a (normalised) call ID
CallOf(id) == CHOOSE k \in 1..Len(IdTable) : toLowerCase(CallId(k)) = toLowerCase(id)

\* ToolMetadata { tool, parameters } of a cached call
MetaOf(id) == [tool |-> CallTool(CallOf(id)), parameters |-> CallParams(CallOf(id))]

\* config.protectedTools
ProtectedTools == {"task"}

\* config.nudge_freq
NudgeFreq == 1

\* config.strategies.onTool / the strategies handed to runOnIdle
OnToolStrategies == <<"prune">>
OnIdleStrategies == <<"deduplication">>
EnabledStrategies == <<"deduplication">>

Range(f) == {f[i] : i \in DOMAIN f}

EmptyMap == [x \in {} |-> 0]

MapPut(m, k, v) == [x \in (DOMAIN m) \cup {k} |-> IF x = k THEN v ELSE m[x]]

MapRemove(m, k) == [x \in (DOMAIN m) \ {k} |-> m[x]]

\* Array.prototype.filter over a sequence
RECURSIVE SeqFilter(_, _)
SeqFilter(s, keep) ==
    IF s = <<>> THEN <<>>
    ELSE (IF Head(s) \in keep THEN <<Head(s)>> ELSE <<>>) \o SeqFilter(Tail(s), keep)

\* ------------------------------------------------------------------------
\* Text atoms and messages
\* ------------------------------------------------------------------------
Txt(s) == [t |-> s, n |-> 0, tool |-> "", key |-> ""]

\* one line of the prunable-tools listing: "<numericId>: <tool>, <paramKey>"
Line(n, tool, key) == [t |-> "line", n |-> n, tool |-> tool, key |-> key]

PRUNED_CONTENT_MESSAGE == <<Txt("[Output removed]")>>

SYSTEM_REMINDER == Txt("<system-reminder>")

NUDGE_INSTRUCTION == Txt("<instruction name=agent_nudge>")

\* ctx.prompts.synthInstruction / ctx.prompts.nudgeInstruction
synthInstruction == Txt("<synth-instruction>")
nudgeInstruction == <<Txt("<nudge-prompt>")>>

UserMsg(content) == [role |-> "user", content |-> content, id |-> ""]
AssistantCall(id) == [role |-> "assistant", content |-> <<>>, id |-> id]
ToolResult(id, content) == [role |-> "tool", content |-> content, id |-> id]

\* ------------------------------------------------------------------------
\* ID registry (lib/state/id-mapping.ts)
\* ------------------------------------------------------------------------
NewMapping == [numericToActual |-> EmptyMap, actualToNumeric |-> EmptyMap, nextId |-> 1]

\* variant: a new session's entry starts as a copy of an existing one
getSessionMapping_Shared(sm, sessionId) ==
    IF sessionId \in DOMAIN sm THEN sm
    ELSE IF DOMAIN sm = {} THEN MapPut(sm, sessionId, NewMapping)
    ELSE MapPut(sm, sessionId, sm[CHOOSE x \in DOMAIN sm : TRUE])

\* sm is the module-level sessionMappings Map; the result is the Map after
\* the lazy creation of the session's entry
getSessionMapping(sm, sessionId) ==
    IF sessionId \in DOMAIN sm THEN sm ELSE MapPut(sm, sessionId, NewMapping)

getOrCreateNumericId_NoLookup(sm, sessionId, actualId) ==
    LET sm1 == getSessionMapping(sm, sessionId)
        m   == sm1[sessionId]
    IN  [sm  |-> MapPut(sm1, sessionId,
                    [numericToActual |-> MapPut(m.numericToActual, m.nextId, actualId),
                     actualToNumeric |-> MapPut(m.actualToNumeric, actualId, m.nextId),
                     nextId          |-> m.nextId + 1]),
         num |-> m.nextId]

\* variant: the reverse map is not written
getOrCreateNumericId_NoReverse(sm, sessionId, actualId) ==
    LET sm1 == getSessionMapping(sm, sessionId)
        m   == sm1[sessionId]
    IN  IF actualId \in DOMAIN m.actualToNumeric
        THEN [sm |-> sm1, num |-> m.actualToNumeric[actualId]]
        ELSE [sm  |-> MapPut(sm1, sessionId,
                        [numericToActual |-> MapPut(m.numericToActual, m.nextId, actualId),
                         actualToNumeric |-> m.actualToNumeric,
                         nextId          |-> m.nextId + 1]),
              num |-> m.nextId]

\* returns the Map after the call and the numeric ID returned
getOrCreateNumericId(sm, sessionId, actualId) ==
    LET sm1 == getSessionMapping(sm, sessionId)
        m   == sm1[sessionId]
    IN  IF actualId \in DOMAIN m.actualToNumeric
        THEN [sm |-> sm1, num |-> m.actualToNumeric[actualId]]
        ELSE [sm  |-> MapPut(sm1, sessionId,
                        [numericToActual |-> MapPut(m.numericToActual, m.nextId, actualId),
                         actualToNumeric |-> MapPut(m.actualToNumeric, actualId, m.nextId),
                         nextId          |-> m.nextId + 1]),
              num |-> m.nextId]

\* "undefined" is modelled as 0 for numbers and "" for IDs
getActualId(sm, sessionId, numericId) ==
    IF sessionId \in DOMAIN sm /\ numericId \in DOMAIN sm[sessionId].numericToActual
    THEN sm[sessionId].numericToActual[numericId] ELSE ""

getNumericId(sm, sessionId, actualId) ==
    IF sessionId \in DOMAIN sm /\ actualId \in DOMAIN sm[sessionId].actualToNumeric
    THEN sm[sessionId].actualToNumeric[actualId] ELSE 0

getAllMappings(sm, sessionId) ==
    IF sessionId \in DOMAIN sm THEN sm[sessionId].numericToActual ELSE EmptyMap

hasMapping(sm, sessionId) == sessionId \in DOMAIN sm

getNextId(sm, sessionId) ==
    IF sessionId \in DOMAIN sm THEN sm[sessionId].nextId ELSE 1

\* ------------------------------------------------------------------------
\* Deduplication strategy and strategy runner (lib/core/strategies)
\* ------------------------------------------------------------------------
\* order-insensitive canonical form of a parameter object
Canonical(parameters) == Range(parameters)

ToolSignature(meta) == <<meta.tool, Canonical(meta.parameters)>>

\* deduplicationStrategy.detect: group the candidates by signature, keep the
\* last ID of every group, never return a protected tool's ID
DedupDetect(toolMetadata, unprunedIds, protectedTools) ==
    LET deduplicatable ==
            SeqFilter(unprunedIds,
                      {id \in Range(unprunedIds) :
                          /\ id \in DOMAIN toolMetadata
                          /\ toolMetadata[id].tool \notin protectedTools})
        sigs == {ToolSignature(toolMetadata[id]) : id \in Range(deduplicatable)}
        Group(sig) ==
            SeqFilter(deduplicatable,
                      {id \in Range(deduplicatable) : ToolSignature(toolMetadata[id]) = sig})
        Earlier(g) == SubSeq(g, 1, Len(g) - 1)
    IN  UNION {Range(Earlier(Group(sig))) : sig \in sigs}

ALL_STRATEGIES == <<"deduplication">>

StrategyDetect(name, toolMetadata, remainingIds, protectedTools) ==
    IF name = "deduplication"
    THEN DedupDetect(toolMetadata, remainingIds, protectedTools)
    ELSE {}

RECURSIVE RunStrategyLoop(_, _, _, _, _)
RunStrategyLoop(strategies, toolMetadata, remainingIds, protectedTools, acc) ==
    IF strategies = <<>> THEN acc
    ELSE LET result == StrategyDetect(Head(strategies), toolMetadata, remainingIds, protectedTools)
             prunedSet == {toLowerCase(id) : id \in result}
         IN  IF Cardinality(result) > 0
             THEN RunStrategyLoop(Tail(strategies), toolMetadata,
                      SeqFilter(remainingIds,
                                {id \in Range(remainingIds) : toLowerCase(id) \notin prunedSet}),
                      protectedTools,
                      [prunedIds  |-> acc.prunedIds \cup result,
                       byStrategy |-> acc.byStrategy \cup {Head(strategies)}])
             ELSE RunStrategyLoop(Tail(strategies), toolMetadata, remainingIds,
                                  protectedTools, acc)

runStrategies_NoProtected(toolMetadata, unprunedIds, protectedTools, enabledStrategies) ==
    RunStrategyLoop(SeqFilter(ALL_STRATEGIES, Range(enabledStrategies)),
                    toolMetadata, unprunedIds, {},
                    [prunedIds |-> {}, byStrategy |-> {}])

runStrategies_SkipSingle(toolMetadata, unprunedIds, protectedTools, enabledStrategies) ==
    LET r == RunStrategyLoop(SeqFilter(ALL_STRATEGIES, Range(enabledStrategies)),
                             toolMetadata, unprunedIds, protectedTools,
                             [prunedIds |-> {}, byStrategy |-> {}])
    IN  IF Cardinality(r.prunedIds) > 1 THEN r ELSE [prunedIds |-> {}, byStrategy |-> {}]

\* the IDs to prune (a Set in the code) and the names of the strategies
\* that found some
runStrategies(toolMetadata, unprunedIds, protectedTools, enabledStrategies) ==
    RunStrategyLoop(SeqFilter(ALL_STRATEGIES, Range(enabledStrategies)),
                    toolMetadata, unprunedIds, protectedTools,
                    [prunedIds |-> {}, byStrategy |-> {}])

\* ------------------------------------------------------------------------
\* Tool-parameter cache (state.toolParameters, a Map in insertion order,
\* kept as the sequence of its keys; the value of a key is MetaOf(key))
\* ------------------------------------------------------------------------
RECURSIVE cacheToolParameters(_, _)
cacheToolParameters(data, keys) ==
    IF data = <<>> THEN keys
    ELSE LET m == Head(data)
             k == toLowerCase(m.id)
         IN  cacheToolParameters(Tail(data),
                 IF m.role = "assistant" /\ m.id # "" /\ k \notin Range(keys)
                 THEN Append(keys, k) ELSE keys)

ToolMetadataMap(keys) == [id \in Range(keys) |-> MetaOf(id)]

\* ------------------------------------------------------------------------
\* Synthetic instruction (api-formats/synth-instruction)
\* ------------------------------------------------------------------------
\* a string is a sequence of text atoms, an array a non-empty sequence of parts
IsStringContent(content) == \A k \in DOMAIN content : "t" \in DOMAIN content[k]

IsArrayContent(content) ==
    content # <<>> /\ \A k \in DOMAIN content : "type" \in DOMAIN content[k]

TextPart(text) == [type |-> "text", text |-> text]

isNudgeMessage_Never(msg, nudgeText) == FALSE

\* lines 71-76 (and isNudgeItemResponses, 137-142)
isNudgeMessage(msg, nudgeText) ==
    IsStringContent(msg.content) /\ msg.content = nudgeText

AlreadyInjected_Never(content, partType, instruction) == FALSE

\* msg.content.includes(instruction) for a string, the .some(...) over the
\* text parts for an array
AlreadyInjected(content, partType, instruction) ==
    IF IsStringContent(content) THEN instruction \in Range(content)
    ELSE \E k \in DOMAIN content :
            /\ content[k].type = partType
            /\ instruction \in Range(content[k].text)

\* the user turn after the injection
WithInstruction(msg, partType, instruction) ==
    IF IsStringContent(msg.content) THEN [msg EXCEPT !.content = Append(@, instruction)]
    ELSE IF IsArrayContent(msg.content)
    THEN [msg EXCEPT !.content = Append(@, [type |-> partType, text |-> <<instruction>>])]
    ELSE msg

RECURSIVE injectSynthFrom(_, _, _, _)
injectSynthFrom(messages, i, instruction, nudgeText) ==
    IF i = 0 THEN [data |-> messages, ret |-> FALSE]
    ELSE LET msg == messages[i]
         IN  IF msg.role = "user"
             THEN IF isNudgeMessage(msg, nudgeText)
                  THEN injectSynthFrom(messages, i - 1, instruction, nudgeText)
                  ELSE IF AlreadyInjected(msg.content, "text", instruction)
                       THEN [data |-> messages, ret |-> FALSE]
                       ELSE [data |-> [messages EXCEPT
                                          ![i] = WithInstruction(msg, "text", instruction)],
                             ret  |-> TRUE]
             ELSE injectSynthFrom(messages, i - 1, instruction, nudgeText)

injectSynth(messages, instruction, nudgeText) ==
    injectSynthFrom(messages, Len(messages), instruction, nudgeText)

\* Gemini: a content is a nudge when its only part is the nudge text
isNudgeContentGemini(content, nudgeText) ==
    /\ Len(content.parts) = 1
    /\ "text" \in DOMAIN content.parts[1]
    /\ content.parts[1].text = nudgeText

RECURSIVE injectSynthGeminiFrom(_, _, _, _)
injectSynthGeminiFrom(contents, i, instruction, nudgeText) ==
    IF i = 0 THEN [data |-> contents, ret |-> FALSE]
    ELSE LET content == contents[i]
             alreadyInjected ==
                 \E k \in DOMAIN content.parts :
                    /\ "text" \in DOMAIN content.parts[k]
                    /\ instruction \in Range(content.parts[k].text)
         IN  IF content.role = "user" /\ ~isNudgeContentGemini(content, nudgeText)
             THEN IF alreadyInjected
                  THEN [data |-> contents, ret |-> FALSE]
                  ELSE [data |-> [contents EXCEPT
                                     ![i].parts = Append(@, [text |-> <<instruction>>])],
                        ret  |-> TRUE]
             ELSE injectSynthGeminiFrom(contents, i - 1, instruction, nudgeText)

injectSynthGemini(contents, instruction, nudgeText) ==
    injectSynthGeminiFrom(contents, Len(contents), instruction, nudgeText)

\* Responses API: the items of type "message" with role user are the turns
RECURSIVE injectSynthResponsesFrom(_, _, _, _)
injectSynthResponsesFrom(input, i, instruction, nudgeText) ==
    IF i = 0 THEN [data |-> input, ret |-> FALSE]
    ELSE LET item == input[i]
         IN  IF /\ item.type = "message"
                /\ item.role = "user"
                /\ ~isNudgeMessage(item, nudgeText)
             THEN IF AlreadyInjected(item.content, "input_text", instruction)
                  THEN [data |-> input, ret |-> FALSE]
                  ELSE [data |-> [input EXCEPT
                                     ![i] = WithInstruction(item, "input_text", instruction)],
                        ret  |-> TRUE]
             ELSE injectSynthResponsesFrom(input, i - 1, instruction, nudgeText)

injectSynthResponses(input, instruction, nudgeText) ==
    injectSynthResponsesFrom(input, Len(input), instruction, nudgeText)

\* the tracker counts every tool result of a non-protected tool once
RECURSIVE trackNewToolResults(_, _, _)
trackNewToolResults(data, tracker, protectedTools) ==
    IF data = <<>> THEN tracker
    ELSE LET m == Head(data)
             k == toLowerCase(m.id)
         IN  trackNewToolResults(Tail(data),
                 IF /\ m.role = "tool" /\ m.id # ""
                    /\ k \notin tracker.seenToolResultIds
                    /\ MetaOf(k).tool \notin protectedTools
                 THEN [tracker EXCEPT !.seenToolResultIds = @ \cup {k},
                                      !.toolResultCount = @ + 1]
                 ELSE tracker,
                 protectedTools)

\* ------------------------------------------------------------------------
\* Prunable-tools listing (api-formats/prunable-list)
\* ------------------------------------------------------------------------
\* the parameter shown in a listing line: the value of the "path" key
extractParameterKey(meta) ==
    LET hits == {i \in DOMAIN meta.parameters : meta.parameters[i][1] = "path"}
    IN  IF hits = {} THEN "" ELSE meta.parameters[CHOOSE i \in hits : TRUE][2]

RECURSIVE buildListLoop(_, _, _, _, _, _)
buildListLoop(sm, sessionId, ids, toolMetadata, protectedTools, acc) ==
    IF ids = <<>> THEN [sm |-> sm, lines |-> acc.lines, numericIds |-> acc.numericIds]
    ELSE LET actualId == Head(ids)
         IN  IF actualId \notin DOMAIN toolMetadata
             THEN buildListLoop(sm, sessionId, Tail(ids), toolMetadata, protectedTools, acc)
             ELSE IF toolMetadata[actualId].tool \in protectedTools
             THEN buildListLoop(sm, sessionId, Tail(ids), toolMetadata, protectedTools, acc)
             ELSE LET r == getOrCreateNumericId(sm, sessionId, actualId)
                      metadata == toolMetadata[actualId]
                  IN  buildListLoop(r.sm, sessionId, Tail(ids), toolMetadata, protectedTools,
                          [lines |-> Append(acc.lines,
                                        Line(r.num, metadata.tool, extractParameterKey(metadata))),
                           numericIds |-> Append(acc.numericIds, r.num)])

\* variant: the protected-tool skip of line 304 is left out
buildPrunableToolsList_NoProtectedSkip(sm, sessionId, unprunedToolCallIds, toolMetadata, protectedTools) ==
    buildListLoop(sm, sessionId, unprunedToolCallIds, toolMetadata, {},
                  [lines |-> <<>>, numericIds |-> <<>>])

\* list = '' is lines = <<>>
buildPrunableToolsList(sm, sessionId, unprunedToolCallIds, toolMetadata, protectedTools) ==
    buildListLoop(sm, sessionId, unprunedToolCallIds, toolMetadata, protectedTools,
                  [lines |-> <<>>, numericIds |-> <<>>])

buildEndInjection(prunableList, includeNudge) ==
    IF prunableList = <<>> THEN <<>>
    ELSE <<SYSTEM_REMINDER>>
         \o (IF includeNudge THEN <<NUDGE_INSTRUCTION>> ELSE <<>>)
         \o <<Txt("<prunable-tools>")>> \o prunableList \o <<Txt("</prunable-tools>")>>

\* variant: the injection is put in front of the messages
injectPrunableList_AtFront(messages, injection) ==
    IF injection = <<>> THEN [data |-> messages, ret |-> FALSE]
    ELSE [data |-> <<UserMsg(injection)>> \o messages, ret |-> TRUE]

\* lines 379-386: push({role: 'user', content: injection})
injectPrunableList(messages, injection) ==
    IF injection = <<>> THEN [data |-> messages, ret |-> FALSE]
    ELSE [data |-> Append(messages, UserMsg(injection)), ret |-> TRUE]

\* ------------------------------------------------------------------------
\* OpenAI-Chat format descriptor (fetch-wrapper/formats/openai-chat)
\* ------------------------------------------------------------------------
\* an Anthropic tool_result part of a user message's content array (a
\* string content is a sequence of text atoms and holds no such part)
IsToolResultPart(part) == "type" \in DOMAIN part /\ part.type = "tool_result"

ToolResultPart(id, content) == [type |-> "tool_result", tool_use_id |-> id, content |-> content]

hasToolOutputs(data) ==
    \E i \in DOMAIN data :
        \/ data[i].role = "tool"
        \/ /\ data[i].role = "user"
           /\ \E j \in DOMAIN data[i].content : IsToolResultPart(data[i].content[j])

RECURSIVE extractToolResultParts(_, _)
extractToolResultParts(content, keys) ==
    IF content = <<>> THEN <<>>
    ELSE LET part == Head(content)
             k    == toLowerCase(part.tool_use_id)
         IN  (IF IsToolResultPart(part) /\ part.tool_use_id # ""
              THEN <<[id |-> k, toolName |-> IF k \in Range(keys) THEN MetaOf(k).tool ELSE ""]>>
              ELSE <<>>)
             \o extractToolResultParts(Tail(content), keys)

RECURSIVE extractToolOutputs(_, _)
extractToolOutputs(data, keys) ==
    IF data = <<>> THEN <<>>
    ELSE LET m == Head(data)
             k == toLowerCase(m.id)
         IN  (IF m.role = "tool" /\ m.id # ""
              THEN <<[id |-> k, toolName |-> IF k \in Range(keys) THEN MetaOf(k).tool ELSE ""]>>
              ELSE <<>>)
             \o (IF m.role = "user" THEN extractToolResultParts(m.content, keys) ELSE <<>>)
             \o extractToolOutputs(Tail(data), keys)

replaceToolOutput_CaseSensitive(data, toolId, prunedMessage) ==
    LET hit(i) == data[i].role = "tool" /\ data[i].id = toolId
        partHit(part) == IsToolResultPart(part) /\ part.tool_use_id = toolId
        messageModified(i) == /\ data[i].role = "user"
                              /\ \E j \in DOMAIN data[i].content : partHit(data[i].content[j])
        newContent(i) == [j \in DOMAIN data[i].content |->
                             IF partHit(data[i].content[j])
                             THEN [data[i].content[j] EXCEPT !.content = prunedMessage]
                             ELSE data[i].content[j]]
    IN  [data |-> [i \in DOMAIN data |->
                      IF hit(i) THEN [data[i] EXCEPT !.content = prunedMessage]
                      ELSE IF messageModified(i) THEN [data[i] EXCEPT !.content = newContent(i)]
                      ELSE data[i]],
         ret  |-> \E i \in DOMAIN data : hit(i) \/ messageModified(i)]

\* m.id is the tool_call_id ("" when the message has none)
replaceToolOutput(data, toolId, prunedMessage) ==
    LET toolIdLower == toLowerCase(toolId)
        hit(i) == /\ data[i].role = "tool"
                  /\ data[i].id # ""
                  /\ toLowerCase(data[i].id) = toolIdLower
        partHit(part) == /\ IsToolResultPart(part)
                         /\ part.tool_use_id # ""
                         /\ toLowerCase(part.tool_use_id) = toolIdLower
        messageModified(i) == /\ data[i].role = "user"
                              /\ \E j \in DOMAIN data[i].content : partHit(data[i].content[j])
        newContent(i) == [j \in DOMAIN data[i].content |->
                             IF partHit(data[i].content[j])
                             THEN [data[i].content[j] EXCEPT !.content = prunedMessage]
                             ELSE data[i].content[j]]
    IN  [data |-> [i \in DOMAIN data |->
                      IF hit(i) THEN [data[i] EXCEPT !.content = prunedMessage]
                      ELSE IF messageModified(i) THEN [data[i] EXCEPT !.content = newContent(i)]
                      ELSE data[i]],
         ret  |-> \E i \in DOMAIN data : hit(i) \/ messageModified(i)]

\* ------------------------------------------------------------------------
\* Gemini format descriptor (fetch-wrapper/formats/gemini.ts)
\* ------------------------------------------------------------------------
\* a part is a record; a function-response part has a functionResponse field
IsFunctionResponse(part) == "functionResponse" \in DOMAIN part

FunctionResponsePart(name, output, signature) ==
    [functionResponse |-> [name |-> name, response |-> [output |-> output]],
     thoughtSignature |-> signature]

GeminiContent(role, parts) == [role |-> role, parts |-> parts]

\* state.googleToolCallMapping in insertion order: the first mapping that
\* is not empty (EmptyMap when there is none)
PositionMapping(googleToolCallMapping) ==
    LET hits == {i \in DOMAIN googleToolCallMapping : DOMAIN googleToolCallMapping[i] # {}}
    IN  IF hits = {} THEN EmptyMap
        ELSE googleToolCallMapping[CHOOSE i \in hits : \A j \in hits : i <= j]

CounterGet_FromOne(counters, funcName) ==
    IF funcName \in DOMAIN counters THEN counters[funcName] ELSE 1

\* toolPositionCounters.get(funcName) || 0
CounterGet(counters, funcName) ==
    IF funcName \in DOMAIN counters THEN counters[funcName] ELSE 0

RECURSIVE geminiExtractParts(_, _, _)
geminiExtractParts(parts, positionMapping, counters) ==
    IF parts = <<>> THEN [outputs |-> <<>>, counters |-> counters]
    ELSE LET part == Head(parts)
             funcName == toLowerCase(part.functionResponse.name)
         IN  IF IsFunctionResponse(part) /\ funcName # ""
             THEN LET currentIndex == CounterGet(counters, funcName)
                      positionKey  == <<funcName, currentIndex>>
                      rest == geminiExtractParts(Tail(parts), positionMapping,
                                                 MapPut(counters, funcName, currentIndex + 1))
                  IN  [outputs |->
                          (IF positionKey \in DOMAIN positionMapping
                              /\ positionMapping[positionKey] # ""
                           THEN <<[id |-> toLowerCase(positionMapping[positionKey]),
                                   toolName |-> funcName]>>
                           ELSE <<>>) \o rest.outputs,
                       counters |-> rest.counters]
             ELSE geminiExtractParts(Tail(parts), positionMapping, counters)

RECURSIVE geminiExtractLoop_CounterPerContent(_, _, _)
geminiExtractLoop_CounterPerContent(data, positionMapping, counters) ==
    IF data = <<>> THEN <<>>
    ELSE geminiExtractParts(Head(data).parts, positionMapping, EmptyMap).outputs
         \o geminiExtractLoop_CounterPerContent(Tail(data), positionMapping, EmptyMap)

RECURSIVE geminiExtractLoop(_, _, _)
geminiExtractLoop(data, positionMapping, counters) ==
    IF data = <<>> THEN <<>>
    ELSE LET r == geminiExtractParts(Head(data).parts, positionMapping, counters)
         IN  r.outputs \o geminiExtractLoop(Tail(data), positionMapping, r.counters)

geminiExtractToolOutputs(data, googleToolCallMapping) ==
    LET positionMapping == PositionMapping(googleToolCallMapping)
    IN  IF DOMAIN positionMapping = {} THEN <<>>
        ELSE geminiExtractLoop(data, positionMapping, EmptyMap)

PrunedPart_NoSpread(part, prunedMessage) ==
    [functionResponse |-> [name |-> part.functionResponse.name,
                           response |-> [name |-> part.functionResponse.name,
                                         content |-> prunedMessage]]]

\* the part returned for a match: the spreads keep every other field
PrunedPart(part, prunedMessage) ==
    [part EXCEPT !.functionResponse.response =
        [name |-> part.functionResponse.name, content |-> prunedMessage]]

\* the map over one content's parts, with the counters carried along
RECURSIVE geminiReplaceParts(_, _, _, _, _)
geminiReplaceParts(parts, positionMapping, counters, toolIdLower, prunedMessage) ==
    IF parts = <<>> THEN [parts |-> <<>>, counters |-> counters, contentModified |-> FALSE]
    ELSE LET part == Head(parts)
             funcName == toLowerCase(part.functionResponse.name)
         IN  IF IsFunctionResponse(part) /\ funcName # ""
             THEN LET currentIndex == CounterGet(counters, funcName)
                      positionKey  == <<funcName, currentIndex>>
                      hit  == /\ positionKey \in DOMAIN positionMapping
                              /\ toLowerCase(positionMapping[positionKey]) = toolIdLower
                      rest == geminiReplaceParts(Tail(parts), positionMapping,
                                                 MapPut(counters, funcName, currentIndex + 1),
                                                 toolIdLower, prunedMessage)
                  IN  [parts |->
                          <<IF hit THEN PrunedPart(part, prunedMessage) ELSE part>>
                          \o rest.parts,
                       counters |-> rest.counters,
                       contentModified |-> hit \/ rest.contentModified]
             ELSE LET rest == geminiReplaceParts(Tail(parts), positionMapping, counters,
                                                 toolIdLower, prunedMessage)
                  IN  [parts |-> <<part>> \o rest.parts,
                       counters |-> rest.counters,
                       contentModified |-> rest.contentModified]

RECURSIVE geminiReplaceLoop(_, _, _, _, _)
geminiReplaceLoop(data, positionMapping, counters, toolIdLower, prunedMessage) ==
    IF data = <<>> THEN [data |-> <<>>, ret |-> FALSE]
    ELSE LET content == Head(data)
             r    == geminiReplaceParts(content.parts, positionMapping, counters,
                                        toolIdLower, prunedMessage)
             rest == geminiReplaceLoop(Tail(data), positionMapping, r.counters,
                                       toolIdLower, prunedMessage)
         IN  [data |-> <<IF r.contentModified THEN [content EXCEPT !.parts = r.parts]
                         ELSE content>> \o rest.data,
              ret  |-> r.contentModified \/ rest.ret]

geminiReplaceToolOutput(data, toolId, prunedMessage, googleToolCallMapping) ==
    LET positionMapping == PositionMapping(googleToolCallMapping)
    IN  IF DOMAIN positionMapping = {} THEN [data |-> data, ret |-> FALSE]
        ELSE geminiReplaceLoop(data, positionMapping, EmptyMap,
                               toLowerCase(toolId), prunedMessage)

geminiHasToolOutputs(data) ==
    \E i \in DOMAIN data :
        \E j \in DOMAIN data[i].parts : IsFunctionResponse(data[i].parts[j])

\* ------------------------------------------------------------------------
\* Session accessor and persisted state
\* ------------------------------------------------------------------------
\* parentID of a session ("" = none)
ParentOf(s) == IF s = "sub" THEN "s1" ELSE ""

SessionInfo(s) == [id |-> s, parentID |-> ParentOf(s)]

\* the orders in which client.session.list() can return the sessions
ListOrders == {<<"s1", "s2">>, <<"s2", "s1">>, <<"sub", "s1", "s2">>}

getMostRecentActiveSession_NoFilter(allSessions) ==
    IF Len(allSessions) > 0 THEN allSessions[1] ELSE NoSession

getMostRecentActiveSession_Last(allSessions) ==
    LET active == SeqFilter(allSessions, {s \in Range(allSessions) : ParentOf(s) = ""})
    IN  IF Len(active) > 0 THEN active[Len(active)] ELSE NoSession

getMostRecentActiveSession(allSessions) ==
    LET active == SeqFilter(allSessions, {s \in Range(allSessions) : ParentOf(s) = ""})
    IN  IF Len(active) > 0 THEN active[1] ELSE NoSession

\* restore-on-demand: the first reference to a session loads the last
\* saved pruned-ID set when memory holds none
ensureSessionRestored(pruned, restored, saved, sessionId) ==
    IF sessionId \in restored
    THEN [pruned |-> pruned, restored |-> restored]
    ELSE [pruned   |-> IF pruned[sessionId] = {}
                       THEN [pruned EXCEPT ![sessionId] = saved[sessionId]]
                       ELSE pruned,
          restored |-> restored \cup {sessionId}]

\* ------------------------------------------------------------------------
\* handleFormat (fetch-wrapper/handler.ts), split at its await
\* ------------------------------------------------------------------------
IncludeNudge_AtThreshold(nudge_freq, toolResultCount) ==
    nudge_freq > 0 /\ toolResultCount >= nudge_freq

\* line 56: the nudge goes with the listing once the tracker has counted
\* more tool results than config.nudge_freq
IncludeNudge(nudge_freq, toolResultCount) ==
    nudge_freq > 0 /\ toolResultCount > nudge_freq

protectedSet_Empty(protectedTools) == {}

\* line 54: const protectedSet = new Set(ctx.config.protectedTools)
protectedSet(protectedTools) == protectedTools

\* lines 25-73: cache, synthetic instruction, prunable list
HandleSync(body, keys, pruned, sm, tracker, lastSeen) ==
    LET keys1  == cacheToolParameters(body, keys)
        onTool == Len(OnToolStrategies) > 0
        synth  == IF onTool THEN injectSynth(body, synthInstruction, nudgeInstruction)
                  ELSE [data |-> body, ret |-> FALSE]
        doList == onTool /\ lastSeen # NoSession
        alreadyPrunedLower ==
            IF doList THEN {toLowerCase(id) : id \in pruned[lastSeen]} ELSE {}
        unprunedIds ==
            SeqFilter(keys1, {id \in Range(keys1) : toLowerCase(id) \notin alreadyPrunedLower})
        bl == IF doList
              THEN buildPrunableToolsList(sm, lastSeen, unprunedIds,
                                          ToolMetadataMap(keys1), ProtectedTools)
              ELSE [sm |-> sm, lines |-> <<>>, numericIds |-> <<>>]
        hasList  == bl.lines # <<>>
        tracker1 == IF hasList
                    THEN trackNewToolResults(synth.data, tracker, protectedSet(ProtectedTools))
                    ELSE tracker
        includeNudge == IncludeNudge(NudgeFreq, tracker1.toolResultCount)
        inj == IF hasList
               THEN injectPrunableList(synth.data, buildEndInjection(bl.lines, includeNudge))
               ELSE [data |-> synth.data, ret |-> FALSE]
    IN  [data     |-> inj.data,
         modified |-> synth.ret \/ inj.ret,
         keys     |-> keys1,
         sm       |-> bl.sm,
         tracker  |-> tracker1,
         synth    |-> synth.ret,
         injected |-> inj.ret,
         numericIds |-> bl.numericIds]

IsProtectedOutput_Never(output) == FALSE

\* lines 82 and 86-88: an output whose cached tool name is protected,
\* ignoring letter case, is skipped
IsProtectedOutput(output) ==
    LET protectedToolsLower == {toLowerCase(t) : t \in ProtectedTools}
    IN  output.toolName # "" /\ toLowerCase(output.toolName) \in protectedToolsLower

\* lines 85-95: the replacement loop over the extracted outputs
RECURSIVE ReplaceLoop(_, _, _, _)
ReplaceLoop(toolOutputs, allPrunedIds, data, replacedCount) ==
    IF toolOutputs = <<>> THEN [data |-> data, replacedCount |-> replacedCount]
    ELSE LET output == Head(toolOutputs)
         IN  IF IsProtectedOutput(output)
             THEN ReplaceLoop(Tail(toolOutputs), allPrunedIds, data, replacedCount)
             ELSE IF output.id \in allPrunedIds
             THEN LET r == replaceToolOutput(data, output.id, PRUNED_CONTENT_MESSAGE)
                  IN  ReplaceLoop(Tail(toolOutputs), allPrunedIds, r.data,
                                  IF r.ret THEN replacedCount + 1 ELSE replacedCount)
             ELSE ReplaceLoop(Tail(toolOutputs), allPrunedIds, data, replacedCount)

HandleAsync_KeepFlag(data, modified, keys, pruned, allSessions) ==
    LET currentSession == getMostRecentActiveSession(allSessions)
        allPrunedIds ==
            IF currentSession # NoSession
            THEN {toLowerCase(id) : id \in pruned[currentSession]} ELSE {}
        r == ReplaceLoop(extractToolOutputs(data, keys), allPrunedIds, data, 0)
    IN  IF allPrunedIds = {}
        THEN [data |-> data, modified |-> modified, replacedCount |-> 0]
        ELSE [data |-> r.data, modified |-> modified, replacedCount |-> r.replacedCount]

\* lines 75-122, after getAllPrunedIds has the session list and the restore
HandleAsync(data, modified, keys, pruned, allSessions) ==
    LET currentSession == getMostRecentActiveSession(allSessions)
        allPrunedIds ==
            IF currentSession # NoSession
            THEN {toLowerCase(id) : id \in pruned[currentSession]} ELSE {}
        r == ReplaceLoop(extractToolOutputs(data, keys), allPrunedIds, data, 0)
    IN  IF allPrunedIds = {}
        THEN [data |-> data, modified |-> modified, replacedCount |-> 0]
        ELSE [data |-> r.data,
              modified |-> IF r.replacedCount > 0 THEN TRUE ELSE modified,
              replacedCount |-> r.replacedCount]

\* the fetch wrapper forwards the re-serialised body only after a run that
\* did not raise and reported a modification
ForwardedBody_KeepOnError(raised, modified, data, orig) ==
    IF modified THEN data ELSE orig

ForwardedBody(raised, modified, data, orig) ==
    IF raised THEN orig ELSE IF modified THEN data ELSE orig

\* ------------------------------------------------------------------------
\* State
\* ------------------------------------------------------------------------
VARIABLES
    transcript,        \* host: per session, the call numbers of its tool calls, in order
    nextCall,          \* host: number of the next tool call
    persisted,         \* disk: per session, the saved pruned-ID set
    toolParameters,    \* state.toolParameters (keys in insertion order)
    prunedIds,         \* state.prunedIds
    restoredSessions,  \* sessions whose persisted state has been loaded
    sessionMappings,   \* id-mapping.ts sessionMappings
    toolTracker,       \* ctx.toolTracker
    lastSeenSessionId, \* state.lastSeenSessionId
    gcPending,         \* state.gcPending (a Map: sessions without entry are absent)
    stats,             \* state.stats
    req,               \* the outbound request being rewritten
    jan,               \* the idle pass in flight
    everNumeric,       \* history: per session, the first number each actual ID was given
    apiLog,            \* history: per session, the IDs passed to getOrCreateNumericId
    apiResult,         \* the value returned by the last registry call
    dd                 \* input and output of the operation called on its own

vars == <<transcript, nextCall, persisted, toolParameters, prunedIds, restoredSessions,
          sessionMappings, toolTracker, lastSeenSessionId, gcPending, stats, req, jan,
          everNumeric, apiLog, apiResult, dd>>

hostVars == <<transcript, nextCall>>
histVars == <<apiLog, apiResult, dd>>

createToolTracker == [seenToolResultIds |-> {}, toolResultCount |-> 0, skipNextIdle |-> FALSE]

ZeroStats == [totalToolsPruned |-> 0, totalTokensSaved |-> 0,
              totalGCTokens |-> 0, totalGCTools |-> 0]

IdleReq == [pc |-> "idle", sess |-> NoSession, orig |-> <<>>, data |-> <<>>,
            modified |-> FALSE, raised |-> FALSE, forwarded |-> <<>>,
            allSessions |-> <<>>, synth |-> FALSE, injected |-> FALSE,
            replacedCount |-> 0, prunedAtStart |-> {}, again |-> <<>>,
            prunedFrom |-> NoSession]

NoGC == [has |-> FALSE, tokensCollected |-> 0, toolsDeduped |-> 0]

\* history: the session's pruned IDs, stats and pending garbage when the
\* pass in flight started
NoBefore == [pruned |-> {}, stats |-> ZeroStats, gc |-> NoGC]

IdleJan == [pc |-> "idle", sess |-> NoSession, already |-> {}, gcp |-> NoGC,
            newly |-> {}, tokensSaved |-> 0, failedOpen |-> FALSE, before |-> NoBefore]

NoDD == [ids |-> <<>>, meta |-> EmptyMap, protected |-> {}, out |-> {}, ran |-> FALSE]

MemoryInit ==
    /\ toolParameters = <<>>
    /\ prunedIds = [s \in Sessions |-> {}]
    /\ restoredSessions = {}
    /\ sessionMappings = EmptyMap
    /\ toolTracker = createToolTracker
    /\ lastSeenSessionId = NoSession
    /\ gcPending = EmptyMap
    /\ stats = [s \in Sessions |-> ZeroStats]
    /\ req = IdleReq
    /\ jan = IdleJan

Init ==
    /\ transcript = [s \in Sessions |-> <<>>]
    /\ nextCall = 1
    /\ persisted = [s \in Sessions |-> {}]
    /\ MemoryInit
    /\ everNumeric = [s \in Sessions |-> EmptyMap]
    /\ apiLog = [s \in Sessions |-> <<>>]
    /\ apiResult = 0
    /\ dd = NoDD

\* ------------------------------------------------------------------------
\* Host
\* ------------------------------------------------------------------------
\* the host handles a session's events one after the other: while a
\* request of the session is being rewritten the session's agent is waiting
NotInFlight(s) == ~(req.pc = "list" /\ req.sess = s)

\* the agent of session s issues a tool call and its output is recorded
HostToolCall(s) ==
    /\ NotInFlight(s)
    /\ nextCall <= MaxCalls
    /\ transcript' = [transcript EXCEPT ![s] = Append(@, nextCall)]
    /\ nextCall' = nextCall + 1
    /\ UNCHANGED <<persisted, toolParameters, prunedIds, restoredSessions, sessionMappings,
                   toolTracker, lastSeenSessionId, gcPending, stats, req, jan,
                   everNumeric, histVars>>

ToolOutputText == <<Txt("out")>>

RECURSIVE CallTurns(_)
CallTurns(calls) ==
    IF calls = <<>> THEN <<>>
    ELSE <<AssistantCall(CallId(Head(calls))), ToolResult(CallId(Head(calls)), ToolOutputText)>>
         \o CallTurns(Tail(calls))

\* the request body the host builds from the session's transcript
BuildBody(s) == <<UserMsg(<<Txt("hi")>>)>> \o CallTurns(transcript[s])

\* history: remember the first number ever shown for an actual ID
RecordNumbers(ever, sm) ==
    [s \in Sessions |->
        IF s \in DOMAIN sm
        THEN [id \in (DOMAIN ever[s]) \cup (DOMAIN sm[s].actualToNumeric) |->
                 IF id \in DOMAIN ever[s] THEN ever[s][id] ELSE sm[s].actualToNumeric[id]]
        ELSE ever[s]]

\* ------------------------------------------------------------------------
\* The request-rewrite hook
\* ------------------------------------------------------------------------
\* history: the body handleFormat returns when it is run on `data` with the
\* state a first run has left and the same session list
RunAgain(data, keys, pruned, restored, sm, tracker, lastSeen, allSessions) ==
    LET r1  == HandleSync(data, keys, pruned, sm, tracker, lastSeen)
        cur == getMostRecentActiveSession(allSessions)
        rs  == IF cur # NoSession
               THEN ensureSessionRestored(pruned, restored, persisted, cur)
               ELSE [pruned |-> pruned, restored |-> restored]
    IN  IF hasToolOutputs(r1.data)
        THEN HandleAsync(r1.data, r1.modified, r1.keys, rs.pruned, allSessions).data
        ELSE r1.data

\* an outbound request of session s enters the wrapper: handleFormat runs
\* up to `await client.session.list()`, or to its end when the request
\* carries no tool output
FetchStart(s) ==
    /\ req.pc \in {"idle", "done"}
    /\ LET body == BuildBody(s)
           r    == HandleSync(body, toolParameters, prunedIds, sessionMappings,
                              toolTracker, s)
           more == hasToolOutputs(r.data)
       IN  /\ lastSeenSessionId' = s
           /\ toolParameters' = r.keys
           /\ sessionMappings' = r.sm
           /\ toolTracker' = r.tracker
           /\ everNumeric' = RecordNumbers(everNumeric, r.sm)
           /\ req' = [pc |-> IF more THEN "list" ELSE "done",
                      sess |-> s, orig |-> body, data |-> r.data,
                      modified |-> r.modified, raised |-> FALSE,
                      forwarded |-> IF more THEN <<>>
                                    ELSE ForwardedBody(FALSE, r.modified, r.data, body),
                      allSessions |-> <<>>, synth |-> r.synth, injected |-> r.injected,
                      replacedCount |-> 0, prunedAtStart |-> prunedIds[s],
                      again |-> IF more THEN <<>>
                                ELSE RunAgain(r.data, r.keys, prunedIds, restoredSessions,
                                              r.sm, r.tracker, s, <<>>),
                      prunedFrom |-> NoSession]
    /\ UNCHANGED <<hostVars, persisted, prunedIds, restoredSessions, gcPending, stats, jan,
                   histVars>>

\* client.session.list() raises: the wrapper's catch forwards the original
FetchListFails ==
    /\ req.pc = "list"
    /\ req' = [req EXCEPT !.pc = "done", !.raised = TRUE,
                          !.forwarded = ForwardedBody(TRUE, req.modified, req.data, req.orig)]
    /\ UNCHANGED <<hostVars, persisted, toolParameters, prunedIds, restoredSessions,
                   sessionMappings, toolTracker, lastSeenSessionId, gcPending, stats, jan,
                   everNumeric, histVars>>

\* client.session.list() returns: getAllPrunedIds restores the current
\* session, handleFormat replaces the pruned outputs and returns
FetchResume(allSessions) ==
    /\ req.pc = "list"
    /\ LET cur == getMostRecentActiveSession(allSessions)
           rs  == IF cur # NoSession
                  THEN ensureSessionRestored(prunedIds, restoredSessions, persisted, cur)
                  ELSE [pruned |-> prunedIds, restored |-> restoredSessions]
           r   == HandleAsync(req.data, req.modified, toolParameters, rs.pruned, allSessions)
       IN  /\ prunedIds' = rs.pruned
           /\ restoredSessions' = rs.restored
           /\ req' = [req EXCEPT !.pc = "done", !.data = r.data, !.modified = r.modified,
                                 !.allSessions = allSessions,
                                 !.prunedFrom = cur,
                                 !.replacedCount = r.replacedCount,
                                 !.forwarded = ForwardedBody(FALSE, r.modified, r.data, req.orig),
                                 !.again = RunAgain(r.data, toolParameters, rs.pruned,
                                                    rs.restored, sessionMappings, toolTracker,
                                                    lastSeenSessionId, allSessions)]
    /\ UNCHANGED <<hostVars, persisted, toolParameters, sessionMappings, toolTracker,
                   lastSeenSessionId, gcPending, stats, jan, everNumeric, histVars>>

\* ------------------------------------------------------------------------
\* Session transcript as the janitor reads it (janitor.ts parseMessages)
\* ------------------------------------------------------------------------
\* one user message, then one assistant message with a tool part per call
MessageCount(calls) == 1 + Len(calls)

parseMessages(calls) ==
    LET toolCallIds == [i \in 1..Len(calls) |-> toLowerCase(CallId(calls[i]))]
    IN  [toolCallIds  |-> toolCallIds,
         toolMetadata |-> [id \in Range(toolCallIds) |-> MetaOf(id)],
         toolOutputs  |-> [id \in Range(toolCallIds) |-> ToolOutputText]]

\* token estimate of a text: one token per atom
estimateTokens(text) == Len(text)

RECURSIVE SumTokens(_, _)
SumTokens(ids, toolOutputs) ==
    IF ids = {} THEN 0
    ELSE LET id == CHOOSE x \in ids : TRUE
         IN  (IF toLowerCase(id) \in DOMAIN toolOutputs
              THEN estimateTokens(toolOutputs[toLowerCase(id)]) ELSE 0)
             + SumTokens(ids \ {id}, toolOutputs)

calculateTokensSaved(prunedSet, toolOutputs) == SumTokens(prunedSet, toolOutputs)

\* ------------------------------------------------------------------------
\* Manual prune (the prune tool) and the deduplication pass
\* ------------------------------------------------------------------------
PruneFilter_NoSkip(resolved) == resolved

\* the resolved IDs that are pruned: protected tools are skipped
PruneFilter(resolved) == {id \in resolved : MetaOf(id).tool \notin ProtectedTools}

\* the lists of numeric IDs a prune request can carry
PruneRequests == {nums \in SUBSET (1..MaxCalls) : Cardinality(nums) \in 1..MaxPrune}

\* the agent asks to prune the outputs behind the numeric IDs nums
ManualPrune(s, nums) ==
    /\ ParentOf(s) = ""
    /\ NotInFlight(s)
    /\ LET rs       == ensureSessionRestored(prunedIds, restoredSessions, persisted, s)
           resolved == {getActualId(sessionMappings, s, n) : n \in nums} \ {""}
           toPrune  == PruneFilter(resolved)
           newly    == toPrune \ rs.pruned[s]
           tokens   == calculateTokensSaved(newly, parseMessages(transcript[s]).toolOutputs)
           all      == rs.pruned[s] \cup toPrune
       IN  /\ toPrune # {}
           /\ prunedIds' = [rs.pruned EXCEPT ![s] = all]
           /\ restoredSessions' = rs.restored
           /\ persisted' = [persisted EXCEPT ![s] = all]
           /\ stats' = [stats EXCEPT ![s].totalToolsPruned = @ + Cardinality(newly),
                                     ![s].totalTokensSaved = @ + tokens]
           /\ toolTracker' = [toolTracker EXCEPT !.toolResultCount = 0,
                                                 !.skipNextIdle = TRUE]
    /\ UNCHANGED <<hostVars, toolParameters, sessionMappings, lastSeenSessionId, gcPending,
                   req, jan, everNumeric, histVars>>

\* the deduplication pass over the session's unpruned calls: what it prunes
\* is recorded as pending garbage for the next notification
DedupPass(s) ==
    /\ ParentOf(s) = ""
    /\ NotInFlight(s)
    /\ LET rs     == ensureSessionRestored(prunedIds, restoredSessions, persisted, s)
           parsed == parseMessages(transcript[s])
           unprunedIds ==
               SeqFilter(parsed.toolCallIds,
                         {id \in Range(parsed.toolCallIds) : id \notin rs.pruned[s]})
           result == runStrategies(parsed.toolMetadata, unprunedIds, ProtectedTools,
                                   EnabledStrategies).prunedIds
           old    == IF s \in DOMAIN gcPending THEN gcPending[s]
                     ELSE [tokensCollected |-> 0, toolsDeduped |-> 0]
           all    == rs.pruned[s] \cup result
       IN  /\ result # {}
           /\ prunedIds' = [rs.pruned EXCEPT ![s] = all]
           /\ restoredSessions' = rs.restored
           /\ persisted' = [persisted EXCEPT ![s] = all]
           /\ gcPending' = MapPut(gcPending, s,
                  [tokensCollected |-> old.tokensCollected
                                       + calculateTokensSaved(result, parsed.toolOutputs),
                   toolsDeduped    |-> old.toolsDeduped + Cardinality(result)])
    /\ UNCHANGED <<hostVars, toolParameters, sessionMappings, toolTracker, lastSeenSessionId,
                   stats, req, jan, everNumeric, histVars>>

\* ------------------------------------------------------------------------
\* Idle pass (janitor.ts runOnIdle / runWithStrategies), split at its awaits
\* ------------------------------------------------------------------------
\* "const llmPrunedIds: string[] = []": the idle pass has no analysis yet
llmPrunedIds == {}

\* line 134: state.gcPending.get(sessionID) ?? null
PendingOf(pending, s) ==
    IF s \in DOMAIN pending
    THEN [has |-> TRUE, tokensCollected |-> pending[s].tokensCollected,
          toolsDeduped |-> pending[s].toolsDeduped]
    ELSE NoGC

isSubagentSession_Never(s, raises) == FALSE

isSubagentSession_FailClosed(s, raises) ==
    IF raises THEN TRUE ELSE ParentOf(s) # ""

\* client.session.get answers with the session's record, or raises and the
\* check fails open
isSubagentSession(s, raises) ==
    IF raises THEN FALSE ELSE ParentOf(s) # ""

\* session.status idle event: the hook returns for a subagent session (no
\* step) and a pass suppressed by the tracker's flag starts nothing;
\* otherwise runWithStrategies runs up to the fetch of the session info and
\* transcript
IdleEvent(s, raises) ==
    /\ jan.pc = "idle"
    /\ ~isSubagentSession(s, raises)
    /\ NotInFlight(s)
    /\ IF toolTracker.skipNextIdle
       THEN /\ toolTracker' = [toolTracker EXCEPT !.skipNextIdle = FALSE]
            /\ UNCHANGED <<prunedIds, restoredSessions, jan>>
       ELSE /\ Len(OnIdleStrategies) > 0
            /\ LET rs == ensureSessionRestored(prunedIds, restoredSessions, persisted, s)
               IN  /\ prunedIds' = rs.pruned
                   /\ restoredSessions' = rs.restored
            /\ jan' = [IdleJan EXCEPT !.pc = "fetch", !.sess = s,
                                      !.failedOpen = raises /\ ParentOf(s) # "",
                                      !.before = [pruned |-> prunedIds[s],
                                                  stats  |-> stats[s],
                                                  gc     |-> PendingOf(gcPending, s)]]
            /\ UNCHANGED toolTracker
    /\ UNCHANGED <<hostVars, persisted, toolParameters, sessionMappings, lastSeenSessionId,
                   gcPending, stats, req, everNumeric, histVars>>

\* the session accessor raises: caught, the pass returns null
JanFetchFails ==
    /\ jan.pc = "fetch"
    /\ jan' = IdleJan
    /\ UNCHANGED <<hostVars, persisted, toolParameters, prunedIds, restoredSessions,
                   sessionMappings, toolTracker, lastSeenSessionId, gcPending, stats, req,
                   everNumeric, histVars>>

MinMessages == 3

TooFewMessages_Never(calls) == FALSE

\* line 124: "if (!messages || messages.length < 3) return null"
TooFewMessages(calls) == MessageCount(calls) < MinMessages

\* lines 121-156: the transcript arrives; parse, early returns, and the
\* call of calculateTokensSaved
JanFetched ==
    /\ jan.pc = "fetch"
    /\ LET s      == jan.sess
           calls  == transcript[s]
           parsed == parseMessages(calls)
           alreadyPrunedIds == prunedIds[s]
           unprunedToolCallIds ==
               SeqFilter(parsed.toolCallIds,
                         {id \in Range(parsed.toolCallIds) : id \notin alreadyPrunedIds})
           gcp == PendingOf(gcPending, s)
           finalNewlyPrunedIds == llmPrunedIds \ alreadyPrunedIds
       IN  jan' = IF \/ TooFewMessages(calls)
                     \/ (Len(unprunedToolCallIds) = 0 /\ ~gcp.has)
                     \/ (finalNewlyPrunedIds = {} /\ ~gcp.has)
                  THEN IdleJan
                  ELSE [pc |-> "tokens", sess |-> s, already |-> alreadyPrunedIds,
                        gcp |-> gcp, newly |-> finalNewlyPrunedIds,
                        tokensSaved |-> calculateTokensSaved(finalNewlyPrunedIds,
                                                             parsed.toolOutputs),
                        failedOpen |-> jan.failedOpen, before |-> jan.before]
    /\ UNCHANGED <<hostVars, persisted, toolParameters, prunedIds, restoredSessions,
                   sessionMappings, toolTracker, lastSeenSessionId, gcPending, stats, req,
                   everNumeric, histVars>>

\* lines 156-185: the token estimate is back; the stats are merged and the
\* notification is sent
JanTokens ==
    /\ jan.pc = "tokens"
    /\ stats' = [stats EXCEPT
                   ![jan.sess].totalToolsPruned = @ + Cardinality(jan.newly),
                   ![jan.sess].totalTokensSaved = @ + jan.tokensSaved,
                   ![jan.sess].totalGCTokens    = @ + jan.gcp.tokensCollected,
                   ![jan.sess].totalGCTools     = @ + jan.gcp.toolsDeduped]
    /\ jan' = [jan EXCEPT !.pc = "notify"]
    /\ UNCHANGED <<hostVars, persisted, toolParameters, prunedIds, restoredSessions,
                   sessionMappings, toolTracker, lastSeenSessionId, gcPending, req,
                   everNumeric, histVars>>

\* lines 173-237: sendUnifiedNotification raises; the catch logs and
\* returns null
JanNotifyFails ==
    /\ jan.pc = "notify"
    /\ stats[jan.sess].totalGCTools <= MaxGC
    /\ jan' = IdleJan
    /\ UNCHANGED <<hostVars, persisted, toolParameters, prunedIds, restoredSessions,
                   sessionMappings, toolTracker, lastSeenSessionId, gcPending, stats, req,
                   everNumeric, histVars>>

JanitorPrunedAfter_Always(current, already, llm, newly) == already \cup llm

\* lines 191-202: the session's pruned IDs after the pass
JanitorPrunedAfter(current, already, llm, newly) ==
    IF newly = {} THEN current ELSE already \cup llm

\* lines 187-207: the notification is back; pending garbage is dropped and,
\* if something was newly pruned, the pruned-ID set is replaced and saved
JanNotified ==
    /\ jan.pc = "notify"
    /\ LET s   == jan.sess
           all == JanitorPrunedAfter(prunedIds[s], jan.already, llmPrunedIds, jan.newly)
       IN  /\ gcPending' = IF jan.gcp.has THEN MapRemove(gcPending, s) ELSE gcPending
           /\ prunedIds' = [prunedIds EXCEPT ![s] = all]
           /\ persisted' = IF jan.newly # {}
                           THEN [persisted EXCEPT ![s] = all] ELSE persisted
    /\ jan' = IdleJan
    /\ UNCHANGED <<hostVars, toolParameters, restoredSessions, sessionMappings, toolTracker,
                   lastSeenSessionId, stats, req, everNumeric, histVars>>

\* ------------------------------------------------------------------------
\* Process restart: memory is lost, the disk and the host's transcript stay
\* ------------------------------------------------------------------------
Restart ==
    /\ toolParameters' = <<>>
    /\ prunedIds' = [s \in Sessions |-> {}]
    /\ restoredSessions' = {}
    /\ sessionMappings' = EmptyMap
    /\ toolTracker' = createToolTracker
    /\ lastSeenSessionId' = NoSession
    /\ gcPending' = EmptyMap
    /\ stats' = [s \in Sessions |-> ZeroStats]
    /\ req' = IdleReq
    /\ jan' = IdleJan
    /\ UNCHANGED <<hostVars, persisted, everNumeric, histVars>>

\* ------------------------------------------------------------------------
\* Specifications
\* ------------------------------------------------------------------------
Next ==
    \/ \E s \in Agents : HostToolCall(s)
    \/ \E s \in Agents : FetchStart(s)
    \/ FetchListFails
    \/ \E o \in ListOrders : FetchResume(o)
    \/ \E s \in Agents, nums \in PruneRequests : ManualPrune(s, nums)
    \/ \E s \in Agents : DedupPass(s)
    \/ \E s \in EventSessions, raises \in BOOLEAN : IdleEvent(s, raises)
    \/ JanFetchFails
    \/ JanFetched
    \/ JanTokens
    \/ JanNotified

Spec == Init /\ [][Next]_vars

SpecRestart == Init /\ [][Next \/ Restart]_vars

\* ------------------------------------------------------------------------
\* The registry API called directly
\* ------------------------------------------------------------------------
RegIds == {CallId(k) : k \in CallNumbers}

RegCalls == Len(apiLog["s1"]) + Len(apiLog["s2"]) + Len(apiLog["sub"])

RegGetOrCreate(s, id) ==
    /\ RegCalls < MaxOps
    /\ LET r == getOrCreateNumericId(sessionMappings, s, id)
       IN  /\ sessionMappings' = r.sm
           /\ apiResult' = r.num
    /\ apiLog' = [apiLog EXCEPT ![s] = Append(@, id)]
    /\ UNCHANGED <<hostVars, persisted, toolParameters, prunedIds, restoredSessions,
                   toolTracker, lastSeenSessionId, gcPending, stats, req, jan,
                   everNumeric, dd>>

RegGetNumericId(s, id) ==
    /\ apiResult' = getNumericId(sessionMappings, s, id)
    /\ UNCHANGED <<hostVars, persisted, toolParameters, prunedIds, restoredSessions,
                   sessionMappings, toolTracker, lastSeenSessionId, gcPending, stats, req,
                   jan, everNumeric, apiLog, dd>>

NextReg ==
    \/ \E s \in Sessions, id \in RegIds : RegGetOrCreate(s, id)
    \/ \E s \in Sessions, id \in RegIds : RegGetNumericId(s, id)

SpecReg == Init /\ [][NextReg]_vars

\* ------------------------------------------------------------------------
\* The strategy runner called on arbitrary candidates
\* ------------------------------------------------------------------------
CandIds == {CallId(k) : k \in 1..MaxCand}

CandMetas ==
    { [tool |-> "read", parameters |-> << <<"path", "x">>, <<"limit", "1">> >>],
      [tool |-> "read", parameters |-> << <<"limit", "1">>, <<"path", "x">> >>],
      [tool |-> "read", parameters |-> << <<"path", "y">> >>],
      [tool |-> "task", parameters |-> << <<"path", "x">>, <<"limit", "1">> >>] }

\* chronological candidate lists: no ID twice
CandLists ==
    {q \in UNION {[1..n -> CandIds] : n \in 0..MaxCand} :
        \A i, j \in DOMAIN q : i # j => q[i] # q[j]}

InitDedup ==
    /\ transcript = [s \in Sessions |-> <<>>]
    /\ nextCall = 1
    /\ persisted = [s \in Sessions |-> {}]
    /\ MemoryInit
    /\ everNumeric = [s \in Sessions |-> EmptyMap]
    /\ apiLog = [s \in Sessions |-> <<>>]
    /\ apiResult = 0
    /\ \E ids \in CandLists :
         \E meta \in [Range(ids) -> CandMetas] :
           \E protected \in {{}, {"task"}} :
              dd = [ids |-> ids, meta |-> meta, protected |-> protected,
                    out |-> {}, ran |-> FALSE]

DedupRun ==
    /\ ~dd.ran
    /\ dd' = [dd EXCEPT !.ran = TRUE,
                        !.out = runStrategies(dd.meta, dd.ids, dd.protected,
                                              EnabledStrategies).prunedIds]
    /\ UNCHANGED <<hostVars, persisted, toolParameters, prunedIds, restoredSessions,
                   sessionMappings, toolTracker, lastSeenSessionId, gcPending, stats, req,
                   jan, everNumeric, apiLog, apiResult>>

SpecDedup == InitDedup /\ [][DedupRun]_vars

\* ------------------------------------------------------------------------
\* replaceToolOutput / extractToolOutputs called on arbitrary data arrays
\* ------------------------------------------------------------------------
\* an OpenAI tool message with a provider field besides role, ID and content
ToolMessage(id, content) ==
    [role |-> "tool", content |-> content, id |-> id, name |-> "fn"]

OpenAIMessages ==
    { ToolMessage("A1", <<Txt("out")>>),
      ToolMessage("a1", <<Txt("out2")>>),
      ToolMessage("c2", <<Txt("out")>>),
      ToolMessage("", <<Txt("out")>>),
      AssistantCall("A1"),
      UserMsg(<<Txt("hi")>>),
      UserMsg(<<TextPart(<<Txt("t")>>), ToolResultPart("A1", <<Txt("out")>>)>>),
      UserMsg(<<ToolResultPart("c2", <<Txt("out")>>), ToolResultPart("a1", <<Txt("out")>>)>>) }

OpenAIArrays == UNION {[1..n -> OpenAIMessages] : n \in 0..MaxData}

GeminiParts ==
    { [text |-> <<Txt("t")>>],
      FunctionResponsePart("grep", "o1", ""),
      FunctionResponsePart("Grep", "o2", "sig"),
      FunctionResponsePart("read", "o3", ""),
      FunctionResponsePart("", "o4", "") }

\* the ways a run of parts is laid out in contents
GeminiLayouts(parts) ==
    { <<GeminiContent("user", parts)>>,
      [k \in 1..Len(parts) |-> GeminiContent("user", <<parts[k]>>)],
      IF Len(parts) > 1
      THEN <<GeminiContent("user", <<Head(parts)>>), GeminiContent("model", <<>>),
             GeminiContent("user", Tail(parts))>>
      ELSE <<GeminiContent("model", <<>>)>> }

GeminiArrays ==
    UNION {GeminiLayouts(parts) : parts \in UNION {[1..n -> GeminiParts] : n \in 0..MaxParts}}

\* state.googleToolCallMapping: per session, "name:index" -> call ID
GeminiMappings ==
    { <<>>,
      << EmptyMap, (<<"grep", 0>> :> "id1") @@ (<<"grep", 2>> :> "ID3") >>,
      << (<<"grep", 0>> :> "ID1") @@ (<<"grep", 1>> :> "id2") @@ (<<"read", 0>> :> "id3") >>,
      << (<<"grep", 0>> :> "id1") @@ (<<"grep", 1>> :> "id1") >>,
      << (<<"grep", 1>> :> "id2"), (<<"grep", 0>> :> "id1") >> }

ReplaceIds == {"A1", "a1", "c2", "id1", "ID3", "id2"}

InitReplace ==
    /\ transcript = [s \in Sessions |-> <<>>]
    /\ nextCall = 1
    /\ persisted = [s \in Sessions |-> {}]
    /\ MemoryInit
    /\ everNumeric = [s \in Sessions |-> EmptyMap]
    /\ apiLog = [s \in Sessions |-> <<>>]
    /\ apiResult = 0
    /\ \/ \E data \in OpenAIArrays :
            dd = [format |-> "openai", data |-> data, orig |-> data, mapping |-> <<>>,
                  n |-> 0, toolId |-> "", ret |-> FALSE]
       \/ \E data \in GeminiArrays, mapping \in GeminiMappings :
            dd = [format |-> "gemini", data |-> data, orig |-> data, mapping |-> mapping,
                  n |-> 0, toolId |-> "", ret |-> FALSE]

OpenAIReplace(toolId) ==
    /\ dd.format = "openai"
    /\ dd.n < MaxRepl
    /\ LET r == replaceToolOutput(dd.data, toolId, PRUNED_CONTENT_MESSAGE)
       IN  dd' = [dd EXCEPT !.data = r.data, !.ret = r.ret, !.toolId = toolId, !.n = @ + 1]
    /\ UNCHANGED <<hostVars, persisted, toolParameters, prunedIds, restoredSessions,
                   sessionMappings, toolTracker, lastSeenSessionId, gcPending, stats, req,
                   jan, everNumeric, apiLog, apiResult>>

GeminiReplace(toolId) ==
    /\ dd.format = "gemini"
    /\ dd.n < MaxRepl
    /\ LET r == geminiReplaceToolOutput(dd.data, toolId, PRUNED_CONTENT_MESSAGE, dd.mapping)
       IN  dd' = [dd EXCEPT !.data = r.data, !.ret = r.ret, !.toolId = toolId, !.n = @ + 1]
    /\ UNCHANGED <<hostVars, persisted, toolParameters, prunedIds, restoredSessions,
                   sessionMappings, toolTracker, lastSeenSessionId, gcPending, stats, req,
                   jan, everNumeric, apiLog, apiResult>>

NextReplace ==
    \/ \E toolId \in ReplaceIds : OpenAIReplace(toolId)
    \/ \E toolId \in ReplaceIds : GeminiReplace(toolId)

SpecReplace == InitReplace /\ [][NextReplace]_vars

\* ------------------------------------------------------------------------
\* The end-of-conversation injection built for arbitrary frequencies and
\* tracker counts
\* ------------------------------------------------------------------------
PrunableLists == {<<>>, <<Line(1, "read", "x")>>, <<Line(1, "read", "x"), Line(2, "grep", "")>>}

InitNudge ==
    /\ transcript = [s \in Sessions |-> <<>>]
    /\ nextCall = 1
    /\ persisted = [s \in Sessions |-> {}]
    /\ MemoryInit
    /\ everNumeric = [s \in Sessions |-> EmptyMap]
    /\ apiLog = [s \in Sessions |-> <<>>]
    /\ apiResult = 0
    /\ \E freq \in 0..MaxFreq, count \in 0..MaxCount, list \in PrunableLists :
          dd = [freq |-> freq, count |-> count, list |-> list, out |-> <<>>, ran |-> FALSE]

BuildInjection ==
    /\ ~dd.ran
    /\ dd' = [dd EXCEPT !.ran = TRUE,
                        !.out = buildEndInjection(dd.list, IncludeNudge(dd.freq, dd.count))]
    /\ UNCHANGED <<hostVars, persisted, toolParameters, prunedIds, restoredSessions,
                   sessionMappings, toolTracker, lastSeenSessionId, gcPending, stats, req,
                   jan, everNumeric, apiLog, apiResult>>

SpecNudge == InitNudge /\ [][BuildInjection]_vars

\* ------------------------------------------------------------------------
\* injectSynth called on arbitrary data arrays of the three formats
\* ------------------------------------------------------------------------
SynthOpenAIMessages ==
    { UserMsg(<<Txt("hi")>>),
      UserMsg(nudgeInstruction),
      UserMsg(<<Txt("hi"), synthInstruction>>),
      UserMsg(<<TextPart(<<Txt("hi")>>)>>),
      UserMsg(<<ToolResultPart("A1", <<Txt("out")>>)>>),
      AssistantCall("A1"),
      ToolResult("A1", <<Txt("out")>>) }

SynthGeminiContents ==
    { GeminiContent("user", <<[text |-> <<Txt("hi")>>]>>),
      GeminiContent("user", <<[text |-> nudgeInstruction]>>),
      GeminiContent("user", <<[text |-> <<Txt("hi")>>], [text |-> <<synthInstruction>>]>>),
      GeminiContent("user", <<FunctionResponsePart("grep", "o1", "")>>),
      GeminiContent("user", <<>>),
      GeminiContent("model", <<[text |-> <<Txt("ok")>>]>>) }

ResponsesItem(type, role, content) == [type |-> type, role |-> role, content |-> content]

SynthResponsesItems ==
    { ResponsesItem("message", "user", <<Txt("hi")>>),
      ResponsesItem("message", "user", nudgeInstruction),
      ResponsesItem("message", "user", <<[type |-> "input_text", text |-> <<Txt("hi")>>]>>),
      ResponsesItem("message", "assistant", <<Txt("ok")>>),
      ResponsesItem("function_call_output", "", <<Txt("out")>>) }

SynthArrays(entries) == UNION {[1..n -> entries] : n \in 0..MaxTurns}

InitSynth ==
    /\ transcript = [s \in Sessions |-> <<>>]
    /\ nextCall = 1
    /\ persisted = [s \in Sessions |-> {}]
    /\ MemoryInit
    /\ everNumeric = [s \in Sessions |-> EmptyMap]
    /\ apiLog = [s \in Sessions |-> <<>>]
    /\ apiResult = 0
    /\ \E format \in {"openai", "gemini", "responses"} :
         \E data \in SynthArrays(CASE format = "openai" -> SynthOpenAIMessages
                                   [] format = "gemini" -> SynthGeminiContents
                                   [] OTHER -> SynthResponsesItems) :
            dd = [format |-> format, data |-> data, orig |-> data, n |-> 0, ret |-> FALSE]

InjectOpenAI ==
    /\ dd.format = "openai"
    /\ dd.n < MaxRepl
    /\ LET r == injectSynth(dd.data, synthInstruction, nudgeInstruction)
       IN  dd' = [dd EXCEPT !.data = r.data, !.ret = r.ret, !.n = @ + 1]
    /\ UNCHANGED <<hostVars, persisted, toolParameters, prunedIds, restoredSessions,
                   sessionMappings, toolTracker, lastSeenSessionId, gcPending, stats, req,
                   jan, everNumeric, apiLog, apiResult>>

InjectGemini ==
    /\ dd.format = "gemini"
    /\ dd.n < MaxRepl
    /\ LET r == injectSynthGemini(dd.data, synthInstruction, nudgeInstruction)
       IN  dd' = [dd EXCEPT !.data = r.data, !.ret = r.ret, !.n = @ + 1]
    /\ UNCHANGED <<hostVars, persisted, toolParameters, prunedIds, restoredSessions,
                   sessionMappings, toolTracker, lastSeenSessionId, gcPending, stats, req,
                   jan, everNumeric, apiLog, apiResult>>

InjectResponses ==
    /\ dd.format = "responses"
    /\ dd.n < MaxRepl
    /\ LET r == injectSynthResponses(dd.data, synthInstruction, nudgeInstruction)
       IN  dd' = [dd EXCEPT !.data = r.data, !.ret = r.ret, !.n = @ + 1]
    /\ UNCHANGED <<hostVars, persisted, toolParameters, prunedIds, restoredSessions,
                   sessionMappings, toolTracker, lastSeenSessionId, gcPending, stats, req,
                   jan, everNumeric, apiLog, apiResult>>

NextSynth == InjectOpenAI \/ InjectGemini \/ InjectResponses

SpecSynth == InitSynth /\ [][NextSynth]_vars


\* ------------------------------------------------------------------------
\* The idle pass called on a session as the host and the earlier requests
\* left it: the transcript is the host's (a revert shortens it), the
\* pending garbage was left by an earlier deduplication
\* ------------------------------------------------------------------------
IdleTranscripts ==
    {[s \in Sessions |-> IF s = "s1" THEN [i \in 1..n |-> i]
                         ELSE IF s = "sub" THEN [i \in 1..m |-> n + i]
                         ELSE <<>>] :
        n \in 0..MaxCalls, m \in 0..MaxCalls}

InitIdle ==
    /\ transcript \in {t \in IdleTranscripts : Len(t["s1"]) + Len(t["sub"]) <= MaxCalls}
    /\ nextCall = Len(transcript["s1"]) + Len(transcript["sub"]) + 1
    /\ \E P \in SUBSET {toLowerCase(CallId(k)) : k \in Range(transcript["s1"])} :
          /\ Cardinality(P) <= MaxPrune
          /\ prunedIds = [s \in Sessions |-> IF s = "s1" THEN P ELSE {}]
    /\ persisted = prunedIds
    /\ gcPending \in {EmptyMap,
                      MapPut(EmptyMap, "s1", [tokensCollected |-> 1, toolsDeduped |-> 1])}
    /\ toolParameters = <<>>
    /\ restoredSessions = {}
    /\ sessionMappings = EmptyMap
    /\ toolTracker = createToolTracker
    /\ lastSeenSessionId = NoSession
    /\ stats = [s \in Sessions |-> ZeroStats]
    /\ req = IdleReq
    /\ jan = IdleJan
    /\ everNumeric = [s \in Sessions |-> EmptyMap]
    /\ apiLog = [s \in Sessions |-> <<>>]
    /\ apiResult = 0
    /\ dd = NoDD

NextIdle ==
    \/ \E s \in EventSessions, raises \in BOOLEAN : IdleEvent(s, raises)
    \/ JanFetchFails
    \/ JanFetched
    \/ JanTokens
    \/ JanNotified
    \/ JanNotifyFails

SpecIdle == InitIdle /\ [][NextIdle]_vars

\* the idle pass with the session's agent at work while the pass is
\* suspended: the deduplication pass can record garbage between its steps
NextIdleBusy ==
    \/ NextIdle
    \/ \E s \in Agents : DedupPass(s)

SpecIdleBusy == InitIdle /\ [][NextIdleBusy]_vars

\* ------------------------------------------------------------------------
\* Adapter selection: the adapters' detect applied to a request body
\* ------------------------------------------------------------------------
\* a top-level field of a body: a string or an array of entries
StringValue(text) == [kind |-> "string", items |-> text]
ArrayValue(items) == [kind |-> "array", items |-> items]

\* Array.isArray(v)
IsArray(v) == v.kind = "array"

\* the truth value of v in "v && ...": an empty string is false, an array
\* (also an empty one) is true
Truthy(v) == v.kind = "array" \/ v.items # <<>>

FieldValues ==
    {StringValue(<<>>), StringValue(<<Txt("t")>>),
     ArrayValue(<<>>), ArrayValue(<<UserMsg(<<Txt("t")>>)>>)}

BodyFields == {"messages", "contents", "input"}

\* the bodies tried: every subset of the three fields, every value
Bodies == UNION {[F -> FieldValues] : F \in SUBSET BodyFields}

openaiChatDetect_AnyValue(body) ==
    "messages" \in DOMAIN body /\ Truthy(body["messages"])

\* body.messages && Array.isArray(body.messages)
openaiChatDetect(body) ==
    "messages" \in DOMAIN body /\ Truthy(body["messages"]) /\ IsArray(body["messages"])

\* body.contents && Array.isArray(body.contents)
geminiDetect(body) ==
    "contents" \in DOMAIN body /\ Truthy(body["contents"]) /\ IsArray(body["contents"])

\* the Responses handler's guard: !(!body.input || !Array.isArray(body.input))
responsesDetect(body) ==
    "input" \in DOMAIN body /\ Truthy(body["input"]) /\ IsArray(body["input"])

FormatNames == <<"openai-chat", "gemini", "openai-responses">>
NoFormat == "none"

Detects(name, body) ==
    CASE name = "openai-chat" -> openaiChatDetect(body)
      [] name = "gemini"      -> geminiDetect(body)
      [] OTHER                -> responsesDetect(body)

\* the adapters whose detect accepts the body
Accepting(body) == {name \in Range(FormatNames) : Detects(name, body)}

\* the first adapter, in the order of the list, whose detect accepts
SelectFormat(body) ==
    LET hits == {i \in DOMAIN FormatNames : Detects(FormatNames[i], body)}
    IN  IF hits = {} THEN NoFormat
        ELSE FormatNames[CHOOSE i \in hits : \A j \in hits : i <= j]

\* a body no adapter takes goes to the original fetch as it came
PassThrough(body) == [modified |-> FALSE, body |-> body]

InitDetect ==
    /\ transcript = [s \in Sessions |-> <<>>]
    /\ nextCall = 1
    /\ persisted = [s \in Sessions |-> {}]
    /\ MemoryInit
    /\ everNumeric = [s \in Sessions |-> EmptyMap]
    /\ apiLog = [s \in Sessions |-> <<>>]
    /\ apiResult = 0
    /\ \E body \in Bodies :
          dd = [body |-> body, accepting |-> {}, selected |-> NoFormat,
                out |-> PassThrough(body), ran |-> FALSE]

DetectRun ==
    /\ ~dd.ran
    /\ dd' = [dd EXCEPT !.accepting = Accepting(dd.body),
                        !.selected = SelectFormat(dd.body),
                        !.out = PassThrough(dd.body),
                        !.ran = TRUE]
    /\ UNCHANGED <<hostVars, persisted, toolParameters, prunedIds, restoredSessions,
                   sessionMappings, toolTracker, lastSeenSessionId, gcPending, stats, req,
                   jan, everNumeric, apiLog, apiResult>>

SpecDetect == InitDetect /\ [][DetectRun]_vars

\* ------------------------------------------------------------------------
\* The registry lookups called directly, next to getOrCreateNumericId
\* ------------------------------------------------------------------------
LookupMapping_Creating(sm, sessionId) == getSessionMapping(sm, sessionId)

\* "sessionMappings.get(sessionId)": the Map after a lookup has read it
LookupMapping(sm, sessionId) == sm

LookupOps == {"getActualId", "getNumericId", "getAllMappings", "hasMapping", "getNextId"}

\* the sessions looked up: one that gets numbers and one never seen
LookupSessions == {"s1", "s2"}

NoLookup == [op |-> "", sess |-> NoSession, numericId |-> 0, actualId |-> "",
             actual |-> "", numeric |-> 0, all |-> EmptyMap, has |-> FALSE, next |-> 0]

InitLookup ==
    /\ transcript = [s \in Sessions |-> <<>>]
    /\ nextCall = 1
    /\ persisted = [s \in Sessions |-> {}]
    /\ MemoryInit
    /\ everNumeric = [s \in Sessions |-> EmptyMap]
    /\ apiLog = [s \in Sessions |-> <<>>]
    /\ apiResult = 0
    /\ dd = NoLookup

\* one lookup: its result goes to the field of its type
RegLookup(op, s, numericId, actualId) ==
    /\ sessionMappings' = LookupMapping(sessionMappings, s)
    /\ dd' = [NoLookup EXCEPT
                !.op = op, !.sess = s, !.numericId = numericId, !.actualId = actualId,
                !.actual  = IF op = "getActualId"
                            THEN getActualId(sessionMappings, s, numericId) ELSE "",
                !.numeric = IF op = "getNumericId"
                            THEN getNumericId(sessionMappings, s, actualId) ELSE 0,
                !.all     = IF op = "getAllMappings"
                            THEN getAllMappings(sessionMappings, s) ELSE EmptyMap,
                !.has     = IF op = "hasMapping" THEN hasMapping(sessionMappings, s) ELSE FALSE,
                !.next    = IF op = "getNextId" THEN getNextId(sessionMappings, s) ELSE 0]
    /\ UNCHANGED <<hostVars, persisted, toolParameters, prunedIds, restoredSessions,
                   toolTracker, lastSeenSessionId, gcPending, stats, req, jan,
                   everNumeric, apiLog, apiResult>>

NextLookup ==
    \/ \E id \in RegIds : RegGetOrCreate("s1", id)
    \/ \E s \in LookupSessions, n \in 1..MaxOps : RegLookup("getActualId", s, n, "")
    \/ \E s \in LookupSessions, id \in RegIds : RegLookup("getNumericId", s, 0, id)
    \/ \E op \in LookupOps \ {"getActualId", "getNumericId"}, s \in LookupSessions :
          RegLookup(op, s, 0, "")

SpecLookup == InitLookup /\ [][NextLookup]_vars

\* ------------------------------------------------------------------------
\* Lazy tokenizer (lib/tokenizer.ts): the module's encodeFn and loadPromise
\* and the calls of preloadTokenizer and encodeText
\* ------------------------------------------------------------------------
\* a text: its length in characters, the number of tokens the tokenizer's
\* encode gives for it, and whether it holds a special token, which encode
\* refuses with an exception
Texts ==
    {[length |-> n, tokens |-> k, special |-> sp] :
        n \in 0..MaxText, k \in 0..MaxText, sp \in BOOLEAN}

\* line 40: Math.ceil(text.length / 4)
EstimatedLength(length) == (length + 3) \div 4

\* gpt-tokenizer's encode: an array of the text's tokens, or an exception
encode(text) ==
    IF text.special THEN [kind |-> "raised", length |-> 0]
    ELSE [kind |-> "array", length |-> text.tokens]

\* lines 35-42: encodeFn is the loaded encode or null
encodeText(encodeFn, text) ==
    IF encodeFn THEN encode(text)
    ELSE [kind |-> "array", length |-> EstimatedLength(text.length)]

NoText == [length |-> 0, tokens |-> 0, special |-> FALSE]

InitTokenizer ==
    /\ transcript = [s \in Sessions |-> <<>>]
    /\ nextCall = 1
    /\ persisted = [s \in Sessions |-> {}]
    /\ MemoryInit
    /\ everNumeric = [s \in Sessions |-> EmptyMap]
    /\ apiLog = [s \in Sessions |-> <<>>]
    /\ apiResult = 0
    /\ dd = [encodeFn |-> FALSE, loadPromise |-> "null", failed |-> FALSE,
             text |-> NoText, ret |-> [kind |-> "none", length |-> 0],
             loadedAtCall |-> FALSE]

TokenizerFrame ==
    UNCHANGED <<hostVars, persisted, toolParameters, prunedIds, restoredSessions,
                sessionMappings, toolTracker, lastSeenSessionId, gcPending, stats, req,
                jan, everNumeric, apiLog, apiResult>>

\* lines 18-28: a second call returns at once, the first starts the import
preloadTokenizer ==
    /\ dd' = IF dd.loadPromise # "null" THEN dd
             ELSE [dd EXCEPT !.loadPromise = "pending"]
    /\ TokenizerFrame

\* lines 22-24: the import resolves
ImportResolves ==
    /\ dd.loadPromise = "pending"
    /\ dd' = [dd EXCEPT !.loadPromise = "settled", !.encodeFn = TRUE]
    /\ TokenizerFrame

\* lines 25-27: the import rejects; the catch swallows it and loadPromise
\* stays set, so the load is never tried again
ImportRejects ==
    /\ dd.loadPromise = "pending"
    /\ dd' = [dd EXCEPT !.loadPromise = "settled", !.failed = TRUE]
    /\ TokenizerFrame

encodeTextCall(text) ==
    /\ dd' = [dd EXCEPT !.text = text, !.ret = encodeText(dd.encodeFn, text),
                        !.loadedAtCall = dd.encodeFn]
    /\ TokenizerFrame

NextTokenizer ==
    \/ preloadTokenizer
    \/ ImportResolves
    \/ ImportRejects
    \/ \E text \in Texts : encodeTextCall(text)

SpecTokenizer == InitTokenizer /\ [][NextTokenizer]_vars

\* ------------------------------------------------------------------------
\* handleFormat called on request bodies of any shape: with and without a
\* user turn, with the synthetic instruction already present, with and
\* without tool outputs, for any pruned-ID sets and any session list
\* ------------------------------------------------------------------------
HandleHeads ==
    { <<>>,
      <<UserMsg(<<Txt("hi")>>)>>,
      <<UserMsg(<<Txt("hi"), synthInstruction>>)>> }

\* the lower-cased IDs of the calls a body can carry
HandleIds == {toLowerCase(CallId(k)) : k \in CallNumbers}

HandlePruned ==
    {[s \in Sessions |-> IF s = "s1" THEN P ELSE IF s = "s2" THEN Q ELSE {}] :
        P \in {X \in SUBSET HandleIds : Cardinality(X) <= MaxPrune},
        Q \in SUBSET {toLowerCase(CallId(1))}}

HandleLists == {<<>>, <<"sub">>} \cup ListOrders

InitHandle ==
    /\ transcript = [s \in Sessions |-> <<>>]
    /\ nextCall = 1
    /\ persisted = [s \in Sessions |-> {}]
    /\ MemoryInit
    /\ everNumeric = [s \in Sessions |-> EmptyMap]
    /\ apiLog = [s \in Sessions |-> <<>>]
    /\ apiResult = 0
    /\ \E head \in HandleHeads, n \in 0..MaxCalls, pruned \in HandlePruned,
          lastSeen \in {NoSession, "s1"}, allSessions \in HandleLists :
          dd = [body |-> head \o CallTurns([k \in 1..n |-> k]), pruned |-> pruned,
                lastSeen |-> lastSeen, allSessions |-> allSessions,
                data |-> <<>>, modified |-> FALSE, synth |-> FALSE, injected |-> FALSE,
                replacedCount |-> 0, ran |-> FALSE]

\* handler.ts 19-123 on dd.body, with a session list that arrives
HandleRun ==
    /\ ~dd.ran
    /\ LET r  == HandleSync(dd.body, <<>>, dd.pruned, EmptyMap, createToolTracker,
                            dd.lastSeen)
           r2 == IF hasToolOutputs(r.data)
                 THEN HandleAsync(r.data, r.modified, r.keys, dd.pruned, dd.allSessions)
                 ELSE [data |-> r.data, modified |-> r.modified, replacedCount |-> 0]
       IN  dd' = [dd EXCEPT !.ran = TRUE, !.data = r2.data, !.modified = r2.modified,
                            !.synth = r.synth, !.injected = r.injected,
                            !.replacedCount = r2.replacedCount]
    /\ UNCHANGED <<hostVars, persisted, toolParameters, prunedIds, restoredSessions,
                   sessionMappings, toolTracker, lastSeenSessionId, gcPending, stats, req,
                   jan, everNumeric, apiLog, apiResult>>

SpecHandle == InitHandle /\ [][HandleRun]_vars

\* ------------------------------------------------------------------------
\* Properties
\* ------------------------------------------------------------------------
\* C1: a second run of handleFormat on the body a first run returned, with
\* the session state the first run left, returns that body unchanged: no
\* second synthetic instruction, no second prunable-tools turn, no second
\* replacement.
C1_SecondRunUnchanged ==
    (req.pc = "done" /\ ~req.raised) => req.again = req.data

\* C2: no step removes an ID from a session's pruned-ID set, whatever the
\* interleaving of requests, idle passes and prunes.
C2_PrunedIdsMonotonic ==
    [][\A s \in Sessions : prunedIds[s] \subseteq prunedIds'[s]]_vars

\* an idle pass is about to write back while a prune has added to the set
\* since the pass took its snapshot
C2_Witness ==
    /\ jan.pc = "notify"
    /\ jan.already # {}
    /\ jan.already # prunedIds[jan.sess]
    /\ stats[jan.sess].totalToolsPruned > 0

\* C3: a request of a session leaves the pipeline with the placeholder in
\* place of every output whose non-protected call was in the session's
\* pruned-ID set when the request started, and the transcript is as before.
C3_PrunedOutputReplaced ==
    (req.pc = "done" /\ ~req.raised) =>
        /\ Len(req.forwarded) >= Len(req.orig)
        /\ \A i \in DOMAIN req.orig :
              ( /\ req.orig[i].role = "tool"
                /\ toLowerCase(req.orig[i].id) \in {toLowerCase(x) : x \in req.prunedAtStart}
                /\ MetaOf(req.orig[i].id).tool \notin ProtectedTools )
              => req.forwarded[i].content = PRUNED_CONTENT_MESSAGE

C5_DedupKeepsLast ==
    (dd.ran /\ dd.protected = {}) =>
        dd.out = { dd.ids[i] : i \in
                     { i \in DOMAIN dd.ids :
                         \E j \in DOMAIN dd.ids :
                            /\ j > i
                            /\ dd.meta[dd.ids[j]].tool = dd.meta[dd.ids[i]].tool
                            /\ Range(dd.meta[dd.ids[j]].parameters)
                                 = Range(dd.meta[dd.ids[i]].parameters) } }

\* the example [a@read(x), b@read(y), c@read(x)]: exactly {a} is returned
C5_Witness ==
    /\ dd.ran
    /\ dd.protected = {}
    /\ Len(dd.ids) = 3
    /\ dd.meta[dd.ids[1]].tool = "read"
    /\ dd.meta[dd.ids[2]] = [tool |-> "read", parameters |-> << <<"path", "y">> >>]
    /\ dd.meta[dd.ids[3]].tool = "read"
    /\ dd.meta[dd.ids[1]].parameters # dd.meta[dd.ids[3]].parameters
    /\ dd.out = {dd.ids[1]}

\* C6: no ID of a protected tool is in the set a strategy run returns,
\* however many identical later calls there are.
C6_DedupSkipsProtected ==
    dd.ran => \A id \in dd.out : dd.meta[id].tool \notin dd.protected

\* a run over a protected tool called twice alike, next to a pruned
\* duplicate of another tool
C6_Witness ==
    /\ dd.ran
    /\ dd.protected = {"task"}
    /\ \E i, j \in DOMAIN dd.ids :
          /\ i < j
          /\ dd.meta[dd.ids[i]].tool = "task"
          /\ dd.meta[dd.ids[j]] = dd.meta[dd.ids[i]]

\* C7: no session's pruned-ID set holds the ID of a call of a protected
\* tool, whether a deduplication pass, an idle pass or a manual prune put
\* the IDs there.
C7_NoProtectedPruned ==
    \A s \in Sessions : \A id \in prunedIds[s] : MetaOf(id).tool \notin ProtectedTools

\* a protected tool was called twice alike, and both a deduplication pass
\* and a manual prune have pruned
C7_Witness ==
    /\ \E i, j \in DOMAIN transcript["s1"] :
          /\ i < j
          /\ CallTool(transcript["s1"][i]) \in ProtectedTools
          /\ CallTool(transcript["s1"][j]) \in ProtectedTools
    /\ stats["s1"].totalToolsPruned > 0
    /\ Cardinality(prunedIds["s1"]) >= 2

\* C8: in every session the k-th distinct actual ID passed to
\* getOrCreateNumericId has the number k, the next number is one more than
\* the count of distinct IDs, and a repeated call consumes none.
C8_NumbersInFirstSeenOrder ==
    \A s \in Sessions :
        LET log   == apiLog[s]
            first == {i \in DOMAIN log : \A j \in 1..(i - 1) : log[j] # log[i]}
        IN  /\ \A i \in first :
                  getNumericId(sessionMappings, s, log[i])
                     = Cardinality({j \in first : j <= i})
            /\ getNextId(sessionMappings, s) = Cardinality(first) + 1

\* three calls for one session, one of them a repeat of an earlier ID
C8_Witness ==
    \E s \in Sessions :
        /\ Len(apiLog[s]) = 3
        /\ apiLog[s][1] = apiLog[s][3]
        /\ apiLog[s][2] # apiLog[s][1]
        /\ getNextId(sessionMappings, s) = 3

\* C9: a numeric ID that resolves to an actual ID resolves to it after every
\* step, and the actual ID keeps that number, also once it is pruned.
C9_PairsImmutable ==
    [][\A s \in DOMAIN sessionMappings :
          /\ s \in DOMAIN sessionMappings'
          /\ \A n \in DOMAIN sessionMappings[s].numericToActual :
                LET id == sessionMappings[s].numericToActual[n]
                IN  /\ getActualId(sessionMappings', s, n) = id
                    /\ getNumericId(sessionMappings', s, id) = n]_vars

\* a request listed the prunable tools after a numbered ID had been pruned
C9_Witness ==
    /\ req.pc = "done"
    /\ ~req.raised
    /\ req.injected
    /\ \E id \in req.prunedAtStart : getNumericId(sessionMappings, req.sess, id) > 0

\* C10: an actual ID that has a number has the number it was first given,
\* also when the registry was lost in a restart and minted again.
C10_NumbersSurviveRestart ==
    \A s \in DOMAIN sessionMappings :
        \A id \in DOMAIN sessionMappings[s].actualToNumeric :
            id \in DOMAIN everNumeric[s]
               => sessionMappings[s].actualToNumeric[id] = everNumeric[s][id]

\* C11 (as stated): the session whose pruned IDs a request's replacement
\* uses is never a subagent session, and no idle pass is ever in flight for
\* a subagent session.
C11_SubagentExcluded ==
    /\ req.prunedFrom # NoSession => ParentOf(req.prunedFrom) = ""
    /\ jan.pc # "idle" => ParentOf(jan.sess) = ""

\* C11 (amended): the session whose pruned IDs a request's replacement uses
\* is never a subagent session, and an idle pass is in flight for a subagent
\* session only when the lookup of its record raised and the check failed
\* open.
C11_SubagentExcludedUnlessLookupRaised ==
    /\ req.prunedFrom # NoSession => ParentOf(req.prunedFrom) = ""
    /\ (jan.pc # "idle" /\ ParentOf(jan.sess) # "") => jan.failedOpen

\* a request was rewritten while list() named the subagent session first
C11_Witness ==
    /\ req.pc = "done"
    /\ Len(req.allSessions) > 0
    /\ ParentOf(req.allSessions[1]) # ""
    /\ req.prunedFrom = "s1"
    /\ req.replacedCount > 0

\* C12: a replacement keeps the data array's length and order, leaves every
\* entry that does not carry the tool ID as it was, and changes nothing but
\* the content payload of an entry or part that does (role, call ID, name,
\* thought signature and the other fields stay).
C12_ReplaceKeepsStructure ==
    [][dd'.n = dd.n + 1 =>
        LET old == dd.data
            new == dd'.data
            SamePartButContent(a, b) ==
                \/ a = b
                \/ /\ IsToolResultPart(a)
                   /\ DOMAIN b = DOMAIN a
                   /\ [b EXCEPT !.content = a.content] = a
            SamePartButResponse(a, b) ==
                \/ a = b
                \/ /\ IsFunctionResponse(a)
                   /\ DOMAIN b = DOMAIN a
                   /\ DOMAIN b.functionResponse = DOMAIN a.functionResponse
                   /\ [b EXCEPT !.functionResponse.response = a.functionResponse.response] = a
        IN  /\ Len(new) = Len(old)
            /\ ~dd'.ret => new = old
            /\ dd.format = "openai" =>
                 \A i \in DOMAIN old :
                    /\ DOMAIN new[i] = DOMAIN old[i]
                    /\ new[i].role = old[i].role
                    /\ new[i].id = old[i].id
                    /\ IF old[i].role = "tool"
                       THEN /\ [new[i] EXCEPT !.content = old[i].content] = old[i]
                            /\ toLowerCase(old[i].id) # toLowerCase(dd'.toolId)
                                 => new[i] = old[i]
                       ELSE /\ Len(new[i].content) = Len(old[i].content)
                            /\ \A j \in DOMAIN old[i].content :
                                  /\ SamePartButContent(old[i].content[j], new[i].content[j])
                                  /\ ( /\ IsToolResultPart(old[i].content[j])
                                       /\ toLowerCase(old[i].content[j].tool_use_id)
                                            # toLowerCase(dd'.toolId) )
                                     => new[i].content[j] = old[i].content[j]
            /\ dd.format = "gemini" =>
                 \A i \in DOMAIN old :
                    /\ new[i].role = old[i].role
                    /\ Len(new[i].parts) = Len(old[i].parts)
                    /\ \A j \in DOMAIN old[i].parts :
                          SamePartButResponse(old[i].parts[j], new[i].parts[j])]_vars

\* a part with a thought signature was replaced in a Gemini array of three
\* parts
C12_Witness ==
    /\ dd.format = "gemini"
    /\ dd.n = 1
    /\ dd.ret
    /\ \E i \in DOMAIN dd.data : \E j \in DOMAIN dd.data[i].parts :
          /\ IsFunctionResponse(dd.data[i].parts[j])
          /\ dd.data[i].parts[j] # dd.orig[i].parts[j]
          /\ dd.data[i].parts[j].thoughtSignature = "sig"

\* C13: the OpenAI-Chat / Anthropic replacement overwrites the content of
\* every tool message and every tool_result part whose ID equals the tool ID
\* ignoring letter case, and returns true exactly when there is one.
C13_OpenAIReplacesEveryMatch ==
    [][(dd.format = "openai" /\ dd'.n = dd.n + 1) =>
        LET old == dd.data
            new == dd'.data
            same(id) == id # "" /\ toLowerCase(id) = toLowerCase(dd'.toolId)
            toolHit(i) == old[i].role = "tool" /\ same(old[i].id)
            partHit(i, j) == /\ old[i].role = "user"
                             /\ IsToolResultPart(old[i].content[j])
                             /\ same(old[i].content[j].tool_use_id)
        IN  /\ \A i \in DOMAIN old :
                  /\ toolHit(i) => new[i].content = PRUNED_CONTENT_MESSAGE
                  /\ \A j \in DOMAIN old[i].content :
                        partHit(i, j) => new[i].content[j].content = PRUNED_CONTENT_MESSAGE
            /\ dd'.ret <=> \E i \in DOMAIN old :
                              toolHit(i) \/ \E j \in DOMAIN old[i].content : partHit(i, j)]_vars

\* two tool messages whose IDs differ in letter case only were overwritten
\* by one call
C13_Witness ==
    /\ dd.format = "openai"
    /\ dd.n = 1
    /\ dd.ret
    /\ Len(dd.orig) = 2
    /\ dd.orig[1].role = "tool" /\ dd.orig[1].id = "A1"
    /\ dd.orig[2].role = "tool" /\ dd.orig[2].id = "a1"
    /\ dd.data[1].content = PRUNED_CONTENT_MESSAGE
    /\ dd.data[2].content = PRUNED_CONTENT_MESSAGE

\* C14: the Gemini replacement overwrites the function-response parts whose
\* key <lower-cased name, number of earlier function responses of that name
\* in the whole array> maps to the tool ID, and leaves every other part as
\* it was; unmapped parts count all the same.
C14_GeminiPositional ==
    [][(dd.format = "gemini" /\ dd'.n = dd.n + 1) =>
        LET old == dd.data
            new == dd'.data
            pm  == PositionMapping(dd.mapping)
            counted(i, j) == /\ IsFunctionResponse(old[i].parts[j])
                             /\ old[i].parts[j].functionResponse.name # ""
            name(i, j) == toLowerCase(old[i].parts[j].functionResponse.name)
            earlier(i, j) ==
                {p \in (DOMAIN old) \X (1..MaxParts) :
                    /\ p[2] \in DOMAIN old[p[1]].parts
                    /\ (p[1] < i \/ (p[1] = i /\ p[2] < j))
                    /\ counted(p[1], p[2])
                    /\ name(p[1], p[2]) = name(i, j)}
            key(i, j) == <<name(i, j), Cardinality(earlier(i, j))>>
            hit(i, j) == /\ counted(i, j)
                         /\ key(i, j) \in DOMAIN pm
                         /\ toLowerCase(pm[key(i, j)]) = toLowerCase(dd'.toolId)
        IN  \A i \in DOMAIN old : \A j \in DOMAIN old[i].parts :
               IF hit(i, j)
               THEN new[i].parts[j].functionResponse.response =
                       [name |-> old[i].parts[j].functionResponse.name,
                        content |-> PRUNED_CONTENT_MESSAGE]
               ELSE new[i].parts[j] = old[i].parts[j]]_vars

\* map {grep:0 -> id1, grep:2 -> ID3} and three grep responses: pruning ID3
\* changed the third response only
C14_Witness ==
    /\ dd.format = "gemini"
    /\ dd.n = 1
    /\ dd.toolId = "ID3"
    /\ dd.ret
    /\ Len(dd.mapping) = 2
    /\ Len(dd.orig) = 1
    /\ Len(dd.orig[1].parts) = 3
    /\ \A j \in 1..3 : IsFunctionResponse(dd.orig[1].parts[j])
    /\ dd.data[1].parts[1] = dd.orig[1].parts[1]
    /\ dd.data[1].parts[2] = dd.orig[1].parts[2]
    /\ dd.data[1].parts[3] # dd.orig[1].parts[3]

\* C15: on a Gemini array a replacement returns true exactly for the IDs the
\* extraction returns, and after any replacements the extraction returns the
\* list it returned before them.
C15_GeminiExtractAgreesWithReplace ==
    dd.format = "gemini" =>
        LET before == geminiExtractToolOutputs(dd.orig, dd.mapping)
        IN  /\ geminiExtractToolOutputs(dd.data, dd.mapping) = before
            /\ dd.n > 0 =>
                 (dd.ret <=> \E k \in DOMAIN before : before[k].id = toLowerCase(dd.toolId))

\* two replacements were made on an array whose responses sit in several
\* contents and map to two IDs
C15_Witness ==
    /\ dd.format = "gemini"
    /\ dd.n = 2
    /\ dd.ret
    /\ Len(dd.orig) > 1
    /\ dd.data # dd.orig
    /\ Len(geminiExtractToolOutputs(dd.data, dd.mapping)) >= 2
    /\ \E i \in DOMAIN dd.data : \E j \in DOMAIN dd.data[i].parts :
          dd.data[i].parts[j] = dd.orig[i].parts[j] /\ IsFunctionResponse(dd.data[i].parts[j])

\* C16: an injection holds the nudge text exactly when the frequency is
\* positive and the tracker's count is greater than it.
C16_NudgeGating ==
    (dd.ran /\ dd.list # <<>>) =>
        /\ dd.out # <<>>
        /\ NUDGE_INSTRUCTION \in Range(dd.out) <=> (dd.freq > 0 /\ dd.count > dd.freq)

\* frequency 10 and a count of 11: the injection holds the nudge
C16_Witness ==
    /\ dd.ran
    /\ dd.freq = 10
    /\ dd.count = 11
    /\ NUDGE_INSTRUCTION \in Range(dd.out)

C18_ListingContent ==
    (req.pc # "idle" /\ Len(OnToolStrategies) > 0) =>
        LET listed == IF req.injected
                      THEN {a \in Range(req.data[Len(req.data)].content) : a.t = "line"}
                      ELSE {}
            prunedLower == {toLowerCase(p) : p \in req.prunedAtStart}
            ids == {toLowerCase(CallId(k)) : k \in 1..MaxCalls}
            qualifies(id) == /\ id \in Range(toolParameters)
                             /\ toLowerCase(id) \notin prunedLower
                             /\ MetaOf(id).tool \notin ProtectedTools
            lineOf(id) == {a \in listed : /\ a.n = getNumericId(sessionMappings, req.sess, id)
                                          /\ a.tool = MetaOf(id).tool}
        IN  /\ \A id \in ids : (lineOf(id) # {}) <=> qualifies(id)
            /\ \A a \in listed : \E id \in ids : qualifies(id) /\ a \in lineOf(id)

\* a run whose listing has a line while another cached call is pruned and
\* a third one is of a protected tool
C18_Witness ==
    /\ req.pc = "done"
    /\ req.injected
    /\ req.prunedAtStart # {}
    /\ \E id \in Range(toolParameters) : MetaOf(id).tool \in ProtectedTools
    /\ \E a \in Range(req.data[Len(req.data)].content) : a.t = "line"

\* C19: a pipeline run for which no cached call qualifies for the listing
\* appends no turn (the data keeps the length of the request, no turn holds
\* the system-reminder banner, the tracker is as before the run); a run
\* for which one qualifies appends exactly one user turn holding the
\* injection, as the last element of the data.
C19_NoEmptyBanner ==
    [][(req.pc \in {"idle", "done"} /\ req'.pc \in {"list", "done"} /\ req' # req) =>
        LET prunedLower == {toLowerCase(p) : p \in prunedIds[req'.sess]}
            candidates == {id \in Range(toolParameters') :
                              /\ toLowerCase(id) \notin prunedLower
                              /\ MetaOf(id).tool \notin ProtectedTools}
            banners == {i \in DOMAIN req'.data :
                           /\ req'.data[i].role = "user"
                           /\ SYSTEM_REMINDER \in Range(req'.data[i].content)}
        IN  IF candidates = {}
            THEN /\ Len(req'.data) = Len(req'.orig)
                 /\ banners = {}
                 /\ toolTracker' = toolTracker
                 /\ ~req'.injected
            ELSE /\ Len(req'.data) = Len(req'.orig) + 1
                 /\ banners = {Len(req'.data)}
                 /\ \E a \in Range(req'.data[Len(req'.data)].content) : a.t = "line"
                 /\ req'.injected]_vars

\* a run over a body with tool outputs for which nothing qualified, so
\* that no turn was appended
C19_Witness ==
    /\ req.pc = "done"
    /\ hasToolOutputs(req.orig)
    /\ ~req.injected
    /\ Len(req.data) = Len(req.orig)
    /\ req.prunedAtStart # {}

\* C20: when an idle pass with the deduplication strategy configured ends
\* for a non-subagent session with at least 3 messages whose transcript
\* holds two unpruned calls of the same non-protected tool with equal
\* parameters, the earlier call's ID is in the session's pruned-ID set
\* after the pass and the session's cumulative stats count it.
C20_IdlePassDeduplicates ==
    [][(/\ jan.pc \in {"fetch", "notify"}
        /\ jan'.pc = "idle"
        /\ "deduplication" \in Range(OnIdleStrategies)
        /\ ParentOf(jan.sess) = ""
        /\ MessageCount(transcript[jan.sess]) >= MinMessages) =>
        LET s      == jan.sess
            parsed == parseMessages(transcript[s])
            ids    == parsed.toolCallIds
            prunedLower == {toLowerCase(p) : p \in prunedIds[s]}
            unpruned(i) == toLowerCase(ids[i]) \notin prunedLower
        IN  \A i, j \in DOMAIN ids :
                (/\ i < j
                 /\ unpruned(i) /\ unpruned(j)
                 /\ parsed.toolMetadata[ids[i]].tool = parsed.toolMetadata[ids[j]].tool
                 /\ parsed.toolMetadata[ids[i]].tool \notin ProtectedTools
                 /\ Canonical(parsed.toolMetadata[ids[i]].parameters)
                        = Canonical(parsed.toolMetadata[ids[j]].parameters))
                => /\ ids[i] \in prunedIds'[s]
                   /\ stats'[s].totalToolsPruned + stats'[s].totalGCTools > 0]_vars

C22_AllOrNothingOnError ==
    [][(/\ jan.pc \in {"fetch", "tokens", "notify"}
        /\ jan'.pc = "idle"
        /\ (jan.pc = "notify" => gcPending' = gcPending /\ jan.gcp.has))
       => /\ prunedIds'[jan.sess] = jan.before.pruned
          /\ stats'[jan.sess] = jan.before.stats
          /\ PendingOf(gcPending', jan.sess) = jan.before.gc]_vars

\* C23: over the lifetime of the tracker a tool-result ID is counted at
\* most once and results of protected tools are never counted: a step
\* raises toolResultCount by exactly the number of IDs it adds to the seen
\* set (or resets it to 0 after a prune), the seen set never loses an ID
\* and never holds the ID of a protected tool's result, so a request that
\* repeats results already seen leaves the count as it is.
C23_ResultsCountedOnce ==
    [][LET seen  == toolTracker.seenToolResultIds
           seen1 == toolTracker'.seenToolResultIds
           new   == seen1 \ seen
       IN  /\ seen \subseteq seen1
           /\ \A id \in seen1 : MetaOf(id).tool \notin ProtectedTools
           /\ \/ toolTracker'.toolResultCount = toolTracker.toolResultCount + Cardinality(new)
              \/ toolTracker'.toolResultCount = 0 /\ new = {}]_vars

\* after a reset a request repeated an earlier result next to a new one
\* and a protected one: only the new one was counted
C23_Witness ==
    /\ req.pc = "done"
    /\ req.injected
    /\ Cardinality(toolTracker.seenToolResultIds) = 2
    /\ toolTracker.toolResultCount = 1
    /\ \E i \in DOMAIN req.orig :
          /\ req.orig[i].role = "tool"
          /\ MetaOf(toLowerCase(req.orig[i].id)).tool \in ProtectedTools

C25_LookupsArePure ==
    [][dd' # dd =>
        LET s      == dd'.sess
            seen   == Len(apiLog[s]) > 0
            given  == Cardinality(Range(apiLog[s]))
        IN  /\ sessionMappings' = sessionMappings
            /\ dd'.op = "getActualId" =>
                  (dd'.numericId > given => dd'.actual = "")
            /\ dd'.op = "getNumericId" =>
                  (dd'.actualId \notin Range(apiLog[s]) => dd'.numeric = 0)
            /\ dd'.op = "getAllMappings" =>
                  /\ ~seen => dd'.all = EmptyMap
                  /\ DOMAIN dd'.all = 1..given
            /\ dd'.op = "hasMapping" => (dd'.has <=> seen)
            /\ dd'.op = "getNextId" => dd'.next = given + 1]_vars

\* a lookup in a session never seen came back not-found while another
\* session has numbers, and the registry has no entry for the session
C25_Witness ==
    /\ dd.op = "getNumericId"
    /\ dd.sess = "s2"
    /\ dd.numeric = 0
    /\ "s2" \notin DOMAIN sessionMappings
    /\ getNextId(sessionMappings, "s1") = 3

\* C26: when the session accessor raises during the subagent check the
\* session counts as not a subagent, whatever its parent, and the idle
\* event still starts the pass: whenever no pass is in flight and the
\* next idle cycle is not suppressed, the event with the raising lookup
\* can be taken and takes the pass to the fetch of the transcript.
C26_SubagentCheckFailsOpen ==
    /\ \A s \in EventSessions : ~isSubagentSession(s, TRUE)
    /\ \A s \in EventSessions :
          (jan.pc = "idle" /\ ~toolTracker.skipNextIdle /\ NotInFlight(s))
          => ENABLED (IdleEvent(s, TRUE) /\ jan'.pc = "fetch" /\ jan'.sess = s)

\* the pass is running for the session that has a parent, after the lookup
\* raised
C26_Witness ==
    /\ jan.pc = "fetch"
    /\ jan.sess = "sub"
    /\ jan.failedOpen
    /\ ParentOf(jan.sess) # ""

\* C28: in every state of the lazy load encodeText can be
\* called and returns an array, never an exception, and while the
\* tokenizer is not loaded, also after a failed load, the array has
\* ceil(text.length / 4) elements.
C28_EstimatorNeverRaises ==
    /\ ENABLED (\E text \in Texts : encodeTextCall(text))
    /\ dd.ret.kind # "raised"
    /\ (dd.ret.kind = "array" /\ ~dd.loadedAtCall) =>
          /\ 4 * dd.ret.length >= dd.text.length
          /\ 4 * dd.ret.length < dd.text.length + 4

C30_ReplacesOnlyPruned ==
    dd.ran =>
        /\ Len(dd.data) >= Len(dd.body)
        /\ \A i \in DOMAIN dd.body :
              dd.body[i].role = "tool" =>
                  /\ dd.data[i].role = "tool"
                  /\ dd.data[i].id = dd.body[i].id
                  /\ dd.data[i] # dd.body[i] =>
                        LET cur == getMostRecentActiveSession(dd.allSessions)
                        IN  /\ cur # NoSession
                            /\ toLowerCase(dd.body[i].id)
                                  \in {toLowerCase(id) : id \in dd.pruned[cur]}
                            /\ toLowerCase(MetaOf(dd.body[i].id).tool)
                                  \notin {toLowerCase(t) : t \in ProtectedTools}

\* one output was replaced while the pruned output of a protected tool and
\* an unpruned output in the same body were left as they were
C30_Witness ==
    /\ dd.ran
    /\ dd.replacedCount = 1
    /\ \E i, j, k \in DOMAIN dd.body :
          /\ dd.body[i].role = "tool" /\ dd.data[i].content = PRUNED_CONTENT_MESSAGE
          /\ dd.body[j].role = "tool" /\ dd.data[j] = dd.body[j]
          /\ MetaOf(dd.body[j].id).tool \in ProtectedTools
          /\ toLowerCase(dd.body[j].id) \in dd.pruned["s1"]
          /\ dd.body[k].role = "tool" /\ dd.data[k] = dd.body[k]
          /\ toLowerCase(dd.body[k].id) \notin dd.pruned["s1"]

\* C31: injectSynth (any format) changes only the last user turn that is
\* not a nudge-only turn; every other element of the array, later nudge-only
\* turns and earlier user turns included, is unchanged and the array keeps
\* its length.
C31_InjectSynthTargetsOneTurn ==
    LET old == dd.orig
        new == dd.data
        NudgeOnly(entry) ==
            IF dd.format = "gemini" THEN entry.parts = <<[text |-> nudgeInstruction]>>
            ELSE entry.content = nudgeInstruction
        UserTurn(entry) ==
            /\ entry.role = "user"
            /\ dd.format = "responses" => entry.type = "message"
        real == {i \in DOMAIN old : UserTurn(old[i]) /\ ~NudgeOnly(old[i])}
    IN  (dd.format \in {"openai", "gemini", "responses"} /\ dd.n > 0) =>
            /\ Len(new) = Len(old)
            /\ \A i \in DOMAIN old :
                  new[i] # old[i] => (i \in real /\ \A j \in real : j <= i)

\* the instruction went into the second of two user turns, in front of a
\* nudge-only turn that stayed as it was
C31_Witness ==
    /\ dd.format = "openai"
    /\ dd.n > 0
    /\ Len(dd.orig) = 3
    /\ dd.orig[1].role = "user"
    /\ dd.orig[2].role = "user"
    /\ dd.orig[3] = UserMsg(nudgeInstruction)
    /\ dd.data[1] = dd.orig[1]
    /\ dd.data[2] # dd.orig[2]
    /\ dd.data[3] = dd.orig[3]

\* C32: pending garbage is consumed exactly once: the pass that reaches the
\* notification step has added the session's pending garbage to the
\* cumulative GC stats once, the session has no pending garbage when that
\* pass ends (so no later pass counts it again), and a pass that finds no
\* pending garbage and nothing newly pruned changes no state.
C32_GarbageConsumedOnce ==
    [][LET s == jan.sess
       IN  /\ (jan.pc = "tokens" /\ jan'.pc = "notify") =>
                 /\ stats'[s].totalGCTokens
                       = stats[s].totalGCTokens + PendingOf(gcPending, s).tokensCollected
                 /\ stats'[s].totalGCTools
                       = stats[s].totalGCTools + PendingOf(gcPending, s).toolsDeduped
           /\ (jan.pc = "notify" /\ jan'.pc = "idle") => s \notin DOMAIN gcPending'
           /\ (jan.pc = "fetch" /\ jan'.pc = "idle" /\ s \notin DOMAIN gcPending) =>
                 /\ stats' = stats
                 /\ gcPending' = gcPending
                 /\ prunedIds' = prunedIds
                 /\ persisted' = persisted]_vars

\* C33: a getOrCreateNumericId for session A changes the result of no
\* lookup (getActualId, getNumericId, getNextId, getAllMappings) for any
\* other session B, and the first number a session hands out is 1 whatever
\* the other sessions hold.
C33_RegistrySessionIsolation ==
    [][\A A \in Sessions :
          apiLog'[A] # apiLog[A] =>
              /\ \A B \in Sessions \ {A} :
                    /\ \A n \in 1..(MaxOps + 1) :
                          getActualId(sessionMappings', B, n)
                             = getActualId(sessionMappings, B, n)
                    /\ \A id \in RegIds :
                          getNumericId(sessionMappings', B, id)
                             = getNumericId(sessionMappings, B, id)
                    /\ getNextId(sessionMappings', B) = getNextId(sessionMappings, B)
                    /\ getAllMappings(sessionMappings', B) = getAllMappings(sessionMappings, B)
              /\ apiLog[A] = <<>> => apiResult' = 1]_vars

\* two sessions hold the same actual ID under different numbers
C33_Witness ==
    /\ getNumericId(sessionMappings, "s1", "c2") = 2
    /\ getNumericId(sessionMappings, "s2", "c2") = 1
    /\ getNextId(sessionMappings, "s1") = 3
    /\ getNextId(sessionMappings, "s2") = 2

\* C34: in every reachable state of a session's registry numericToActual
\* and actualToNumeric are inverse bijections of each other, the assigned
\* numbers are exactly 1 .. nextId - 1, and nextId never decreases.
C34_RegistryShape ==
    /\ [](\A s \in DOMAIN sessionMappings :
             LET m == sessionMappings[s]
             IN  /\ DOMAIN m.numericToActual = 1..(m.nextId - 1)
                 /\ \A n \in DOMAIN m.numericToActual :
                       /\ m.numericToActual[n] \in DOMAIN m.actualToNumeric
                       /\ m.actualToNumeric[m.numericToActual[n]] = n
                 /\ \A id \in DOMAIN m.actualToNumeric :
                       /\ m.actualToNumeric[id] \in DOMAIN m.numericToActual
                       /\ m.numericToActual[m.actualToNumeric[id]] = id)
    /\ [][\A s \in Sessions :
             getNextId(sessionMappings', s) >= getNextId(sessionMappings, s)]_vars

\* a session's registry holds three numbers
C34_Witness ==
    /\ "s1" \in DOMAIN sessionMappings
    /\ sessionMappings["s1"].nextId = 4
    /\ Cardinality(DOMAIN sessionMappings["s1"].actualToNumeric) = 3

\* C35: in a single handleFormat run no tool-call ID is both offered in the
\* injected prunable-tools listing and has its output replaced by the
\* placeholder, also on the first request after a restart and when the
\* last-seen session is not the first active session of the accessor.
C35_ListingAndReplacementAgree ==
    (req.pc = "done" /\ ~req.raised) =>
        LET last   == req.data[Len(req.data)]
            listed == IF req.injected
                      THEN {getActualId(sessionMappings, req.sess, a.n) :
                               a \in {x \in Range(last.content) : x.t = "line"}}
                      ELSE {}
            replaced == {toLowerCase(req.data[i].id) :
                            i \in {j \in DOMAIN req.orig :
                                      /\ req.orig[j].role = "tool"
                                      /\ req.data[j].content = PRUNED_CONTENT_MESSAGE
                                      /\ req.orig[j].content # PRUNED_CONTENT_MESSAGE}}
        IN  listed \cap replaced = {}

\* C36: when several sessions have non-empty position maps, a Gemini
\* replaceToolOutput for an ID of one session, and the extractToolOutputs
\* before it, correlate the function responses with that session's
\* position map: they give what they give when that map is the only one.
C36_PositionMapsDoNotLeak ==
    [][(dd.format = "gemini" /\ dd'.n = dd.n + 1) =>
          \A k \in DOMAIN dd.mapping :
              (/\ Cardinality({j \in DOMAIN dd.mapping : DOMAIN dd.mapping[j] # {}}) > 1
               /\ toLowerCase(dd'.toolId)
                     \in {toLowerCase(id) : id \in Range(dd.mapping[k])})
              => /\ dd'.data = geminiReplaceToolOutput(dd.data, dd'.toolId,
                                   PRUNED_CONTENT_MESSAGE, <<dd.mapping[k]>>).data
                 /\ geminiExtractToolOutputs(dd.data, dd.mapping)
                       = geminiExtractToolOutputs(dd.data, <<dd.mapping[k]>>)]_vars

\* C37: garbage and pruned IDs recorded for a session while an idle pass for
\* it is suspended are not discarded when the pass resumes: the garbage the
\* pass did not count is still pending when the pass ends, and the pruned
\* IDs are still in the set.
C37_NoLostUpdateInIdlePass ==
    [][(jan.pc = "notify" /\ jan'.pc = "idle") =>
          LET s     == jan.sess
              cur   == PendingOf(gcPending, s)
              after == PendingOf(gcPending', s)
          IN  /\ after.toolsDeduped >= cur.toolsDeduped - jan.gcp.toolsDeduped
              /\ after.tokensCollected >= cur.tokensCollected - jan.gcp.tokensCollected
              /\ prunedIds[s] \subseteq prunedIds'[s]]_vars
====
